---- MODULE Spec2Model ----
(***************************************************************************)
(* Magnetic integral-equation simulation (Simulation3DIntegral and its     *)
(* equivalent-source-layer variant) of                                     *)
(* simpeg/potential_fields/magnetics/simulation.py.                        *)
(*                                                                         *)
(* Arrays are functions over 0 .. n-1, as numpy indexes them.  Kernel      *)
(* values are integers: KernelEval stands for constant_factor times the    *)
(* signed eight-corner sum of one choclo/geoana prism kernel.              *)
(***************************************************************************)
EXTENDS Integers, Sequences, FiniteSets, TLC

(***************************************************************************)
(* Bounds of the model.                                                    *)
(***************************************************************************)
\* number of cells of the mesh
NCells == 3
\* number of active cells of every mask (nC)
NActive == 2
\* number of models the inversion loop proposes
NModels == 2
\* receivers of the three-component survey of the simulation object
NRecSim == 1
\* receivers of the largest receiver group of the engine surveys
MaxRec == 2

(***************************************************************************)
(* Small arithmetic on arrays.                                             *)
(***************************************************************************)
RECURSIVE SumTo(_, _)
\* sum of f[0] + ... + f[n-1]
SumTo(f, n) == IF n = 0 THEN 0 ELSE f[n - 1] + SumTo(f, n - 1)

Size(a) == Cardinality(DOMAIN a)

Zeros(n) == [j \in 0 .. n - 1 |-> 0]

Ones(n) == [j \in 0 .. n - 1 |-> 1]

\* numpy a @ x for a two-dimensional a (rows of length Size(x))
MatVec(a, x) == [i \in DOMAIN a |-> SumTo([j \in DOMAIN x |-> a[i][j] * x[j]], Size(x))]

\* numpy a.T @ y
MatTVec(a, ncols, y) ==
    [j \in 0 .. ncols - 1 |-> SumTo([i \in DOMAIN y |-> a[i][j] * y[i]], Size(y))]

\* inner product <x, y>
Dot(x, y) == SumTo([i \in DOMAIN x |-> x[i] * y[i]], Size(x))

\* Only({e : x \in {v}}) is e with x standing for the value of v
Only(S) == CHOOSE x \in S : TRUE

RECURSIVE Gcd(_, _)
Gcd(a, b) == IF b = 0 THEN a ELSE Gcd(b, a % b)

(***************************************************************************)
(* Python's slice(start, stop, step) for step > 0: the indices it selects  *)
(* and a view-write through it.                                            *)
(***************************************************************************)
SliceLen(start, stop, step) ==
    IF stop <= start THEN 0 ELSE ((stop - start) + (step - 1)) \div step

\* position p of the slice -> index of the underlying array
SliceRows(start, stop, step) ==
    [p \in 0 .. SliceLen(start, stop, step) - 1 |-> start + p * step]

\* arr[slice][p] += vals[p] for every p of vals, through the view arr[slice]
AddToSlice(arr, rows, vals) ==
    [i \in DOMAIN arr |->
        IF \E p \in DOMAIN rows : rows[p] = i /\ p \in DOMAIN vals
        THEN arr[i] + vals[CHOOSE p \in DOMAIN rows : rows[p] = i]
        ELSE arr[i]]

\* arr[slice][p] = vals[p]: rows of a matrix assigned through the view
AssignSlice(arr, rows, vals) ==
    [i \in DOMAIN arr |->
        IF \E p \in DOMAIN rows : rows[p] = i /\ p \in DOMAIN vals
        THEN vals[CHOOSE p \in DOMAIN rows : rows[p] = i]
        ELSE arr[i]]

\* vector[slice]: the values a strided view reads
ReadSlice(arr, rows) == [p \in DOMAIN rows |-> arr[rows[p]]]

(***************************************************************************)
(* Components and kernels.                                                 *)
(***************************************************************************)
CHOCLO_SUPPORTED_COMPONENTS ==
    {"tmi", "bx", "by", "bz", "bxx", "byy", "bzz", "bxy", "bxz", "byz",
     "tmi_x", "tmi_y", "tmi_z"}

\* component -> the choclo prism kernels of its x, y, z terms (magnetic
\* components) or of the tensor entries xx, yy, zz, xy, xz, yz (tmi derivatives)
CHOCLO_KERNELS ==
    [bx |-> <<"ee", "en", "eu">>,
     by |-> <<"en", "nn", "nu">>,
     bz |-> <<"eu", "nu", "uu">>,
     bxx |-> <<"eee", "een", "eeu">>,
     byy |-> <<"enn", "nnn", "nnu">>,
     bzz |-> <<"euu", "nuu", "uuu">>,
     bxy |-> <<"een", "enn", "enu">>,
     bxz |-> <<"eeu", "enu", "euu">>,
     byz |-> <<"enu", "nnu", "nuu">>,
     tmi_x |-> <<"eee", "enn", "euu", "een", "eeu", "enu">>,
     tmi_y |-> <<"een", "nnn", "nuu", "enn", "enu", "nnu">>,
     tmi_z |-> <<"eeu", "nnu", "uuu", "enu", "euu", "nuu">>]

\* the kernel tensor (xx, yy, zz, xy, xz, yz) the tmi functions evaluate
TmiKernels == <<"ee", "nn", "uu", "en", "eu", "nu">>

KernelNames ==
    <<"ee", "en", "eu", "nn", "nu", "uu", "eee", "een", "eeu", "enn", "enu",
      "euu", "nnn", "nnu", "nuu", "uuu">>

KernelIndex(kname) == CHOOSE i \in 1 .. Len(KernelNames) : KernelNames[i] = kname

\* survey.source_field.b0: the regional field vector (x, y, z)
RegionalField == [a \in 0 .. 2 |-> IF a = 1 THEN -1 ELSE 2]

\* survey.source_field.amplitude = |b0|
Amplitude == 3

\* constant_factor * (signed sum over the eight corners of the cell) of one
\* prism kernel, for the receiver at location loc; a multiple of Amplitude so
\* that the projection on the unit regional field stays an integer
KernelEval(variant, kname, loc, cell) ==
    LET i == KernelIndex(kname)
        s == IF variant = "layer" THEN 1 ELSE 0
    IN  Amplitude * (((i * i + 2 * i * loc + 3 * cell * loc + 5 * cell + loc + s) % 5) - 2)

\* entry (d, a) of the symmetric tensor given as (xx, yy, zz, xy, xz, yz)
TensorEntry(six, d, a) ==
    IF d = a THEN six[d + 1]
    ELSE IF {d, a} = {0, 1} THEN six[4]
    ELSE IF {d, a} = {0, 2} THEN six[5]
    ELSE six[6]

\* the x, y, z kernel terms of one component at one (receiver, cell) pair;
\* tmi and its derivatives project the tensor on the unit regional field
KernelTriplet(variant, component, loc, cell) ==
    IF component \in {"tmi", "tmi_x", "tmi_y", "tmi_z"}
    THEN LET names == IF component = "tmi" THEN TmiKernels
                      ELSE CHOCLO_KERNELS[component]
             six == [n \in 1 .. 6 |-> KernelEval(variant, names[n], loc, cell)]
         IN  [a \in 0 .. 2 |->
                SumTo([d \in 0 .. 2 |-> RegionalField[d] * TensorEntry(six, d, a)], 3)
                    \div Amplitude]
    ELSE LET names == CHOCLO_KERNELS[component]
         IN  [a \in 0 .. 2 |-> KernelEval(variant, names[a + 1], loc, cell)]

(***************************************************************************)
(* Survey: a sequence of receiver groups, each with its component list and *)
(* the locations of its receivers.                                         *)
(***************************************************************************)
\* what _get_components_and_receivers yields for group g: (components, receivers)
GetComponentsAndReceivers(survey, g) == <<survey[g].components, survey[g].receivers>>

\* n_rows = n_components * receivers.shape[0]
GroupNRows(grp) == Len(grp.components) * Len(grp.receivers)

RECURSIVE SurveyNDUpTo(_, _)
SurveyNDUpTo(survey, g) ==
    IF g = 0 THEN 0 ELSE SurveyNDUpTo(survey, g - 1) + GroupNRows(survey[g])

\* survey.nD: the total datum count
SurveyND(survey) == SurveyNDUpTo(survey, Len(survey))

\* the active cells of a mask, in mesh order
RECURSIVE CellsOf(_)
CellsOf(mask) ==
    IF mask = {} THEN << >>
    ELSE LET c == CHOOSE x \in mask : \A y \in mask : x <= y
         IN  <<c>> \o CellsOf(mask \ {c})

\* cell of active index k (0-based)
ActiveCell(mask, k) == CellsOf(mask)[k + 1]

\* n_columns = nC if scalar_model else 3 * nC
NColumns(mtype, mask) ==
    IF mtype = "scalar" THEN Cardinality(mask) ELSE 3 * Cardinality(mask)

(***************************************************************************)
(* The per-component numba functions (NUMBA_FUNCTIONS_3D / _2D).           *)
(***************************************************************************)
\* one row of G: the kernel of (component, receiver) for every column.  A
\* scalar model projects the triplet on the regional field; a vector model
\* has the x, y and z blocks of nC columns each
KernelRow(variant, mtype, component, loc, mask) ==
    LET nC == Cardinality(mask)
    IN  [j \in 0 .. NColumns(mtype, mask) - 1 |->
            IF mtype = "scalar"
            THEN LET t == KernelTriplet(variant, component, loc, ActiveCell(mask, j))
                 IN  SumTo([a \in 0 .. 2 |-> t[a] * RegionalField[a]], 3)
            ELSE KernelTriplet(variant, component, loc,
                               ActiveCell(mask, j % nC))[j \div nC] * Amplitude]

\* forward_func: out[r] += sum over the cells of kernel * model, r the index
\* of the receiver in the group
ForwardFunc(variant, mtype, component, receivers, mask, model) ==
    [r \in 0 .. Len(receivers) - 1 |->
        Dot(KernelRow(variant, mtype, component, receivers[r + 1], mask), model)]

\* sensitivity_func: out[r, :] = the kernel row of receiver r
SensitivityFunc(variant, mtype, component, receivers, mask) ==
    [r \in 0 .. Len(receivers) - 1 |->
        KernelRow(variant, mtype, component, receivers[r + 1], mask)]

\* gt_dot_v_func: result[k] += sum over the receivers r of kernel[r, k] * vector[r]
GtDotVFunc(variant, mtype, component, receivers, mask, vector, result) ==
    [k \in DOMAIN result |->
        result[k] + SumTo([r \in 0 .. Len(receivers) - 1 |->
            KernelRow(variant, mtype, component, receivers[r + 1], mask)[k]
                * vector[r]], Len(receivers))]

\* diagonal_gtg_func: diagonal[k] += sum over the receivers r of
\* weights[r] * kernel[r, k]^2, r the index of the receiver in the group
DiagonalGtgFunc(variant, mtype, component, receivers, mask, weights, diagonal) ==
    [k \in DOMAIN diagonal |->
        diagonal[k] + SumTo([r \in 0 .. Len(receivers) - 1 |->
            LET x == KernelRow(variant, mtype, component, receivers[r + 1], mask)[k]
            IN  weights[r] * x * x], Len(receivers))]

(***************************************************************************)
(* The four operation modes of the sensitivity engine.                     *)
(***************************************************************************)
\* the outcome of a call: the exception it raises, or the value it returns
Raise(e) == [raised |-> e, value |-> << >>]

Return(v) == [raised |-> "no", value |-> <<v>>]

\* index_offset on entry to group g: the n_rows of the earlier groups
IndexOffset(survey, g) == SurveyNDUpTo(survey, g - 1)

\* a slice that lays the rows of a group out component after component
VectorSliceByComponent(survey, g, i) ==
    LET n_receivers == Len(survey[g].receivers)
    IN  SliceRows(IndexOffset(survey, g) + i * n_receivers,
                  IndexOffset(survey, g) + (i + 1) * n_receivers, 1)

\* a slice of step one: the rows from index_offset + i to the end of the group
VectorSliceOfStepOne(survey, g, i) ==
    SliceRows(IndexOffset(survey, g) + i,
              IndexOffset(survey, g) + GroupNRows(survey[g]), 1)

\* slice(index_offset + i, index_offset + n_rows, n_components)
VectorSlice(survey, g, i) ==
    LET n_components == Len(survey[g].components)
        n_rows == GroupNRows(survey[g])
    IN  SliceRows(IndexOffset(survey, g) + i, IndexOffset(survey, g) + n_rows,
                  n_components)

\* the (group, component position) pairs in the order the loops visit them
RECURSIVE Iterations(_, _)
Iterations(survey, g) ==
    IF g = 0 THEN << >>
    ELSE Iterations(survey, g - 1)
            \o [i \in 1 .. Len(survey[g].components) |-> <<g, i - 1>>]

\* the elements of the output array that the evaluation of component i of
\* group g is handed: fields[vector_slice] and sensitivity_matrix[matrix_slice, :]
\* (rows), the whole of result and of diagonal (columns)
OutputElements(method, mtype, survey, mask, g, i) ==
    IF method \in {"_forward", "_sensitivity_matrix"}
    THEN {row \in 0 .. SurveyND(survey) - 1 :
            \E p \in DOMAIN VectorSlice(survey, g, i) :
                VectorSlice(survey, g, i)[p] = row}
    ELSE 0 .. NColumns(mtype, mask) - 1

\* some group fails CHOCLO_SUPPORTED_COMPONENTS.issuperset(components)
HasUnsupported(survey) ==
    \E g \in 1 .. Len(survey) :
        \E i \in 1 .. Len(survey[g].components) :
            survey[g].components[i] \notin CHOCLO_SUPPORTED_COMPONENTS

RECURSIVE ForwardLoop(_, _, _, _, _, _, _)
ForwardLoop(variant, mtype, survey, mask, model, iters, n) ==
    IF n = 0 THEN Zeros(SurveyND(survey))
    ELSE LET g == iters[n][1]
             i == iters[n][2]
         IN  AddToSlice(ForwardLoop(variant, mtype, survey, mask, model, iters, n - 1),
                        VectorSlice(survey, g, i),
                        ForwardFunc(variant, mtype, survey[g].components[i + 1],
                                    survey[g].receivers, mask, model))

\* Simulation3DIntegral._forward(model)
_forward(mtype, survey, mask, model) ==
    IF HasUnsupported(survey) THEN Raise("NotImplementedError")
    ELSE LET iters == Iterations(survey, Len(survey))
         IN  Return(ForwardLoop("3D", mtype, survey, mask, model, iters, Len(iters)))

\* np.empty(shape): a row that no slice writes stays uninitialised, shown as
\* the empty row << >>
EmptyMatrix(nrows) == [i \in 0 .. nrows - 1 |-> << >>]

RECURSIVE SensitivityLoop(_, _, _, _, _, _)
SensitivityLoop(variant, mtype, survey, mask, iters, n) ==
    IF n = 0 THEN EmptyMatrix(SurveyND(survey))
    ELSE LET g == iters[n][1]
             i == iters[n][2]
         IN  AssignSlice(SensitivityLoop(variant, mtype, survey, mask, iters, n - 1),
                         VectorSlice(survey, g, i),
                         SensitivityFunc(variant, mtype, survey[g].components[i + 1],
                                         survey[g].receivers, mask))

\* Simulation3DIntegral._sensitivity_matrix()
_sensitivity_matrix(mtype, survey, mask) ==
    IF HasUnsupported(survey) THEN Raise("NotImplementedError")
    ELSE LET iters == Iterations(survey, Len(survey))
         IN  Return(SensitivityLoop("3D", mtype, survey, mask, iters, Len(iters)))

RECURSIVE TransposeLoop(_, _, _, _, _, _, _)
TransposeLoop(variant, mtype, survey, mask, vector, iters, n) ==
    IF n = 0 THEN Zeros(NColumns(mtype, mask))
    ELSE LET g == iters[n][1]
             i == iters[n][2]
         IN  GtDotVFunc(variant, mtype, survey[g].components[i + 1],
                        survey[g].receivers, mask,
                        ReadSlice(vector, VectorSlice(survey, g, i)),
                        TransposeLoop(variant, mtype, survey, mask, vector, iters, n - 1))

\* Simulation3DIntegral._sensitivity_matrix_transpose_dot_vec(vector)
_sensitivity_matrix_transpose_dot_vec(mtype, survey, mask, vector) ==
    IF HasUnsupported(survey) THEN Raise("NotImplementedError")
    ELSE LET iters == Iterations(survey, Len(survey))
         IN  Return(TransposeLoop("3D", mtype, survey, mask, vector, iters, Len(iters)))

RECURSIVE DiagonalLoop(_, _, _, _, _, _, _)
DiagonalLoop(variant, mtype, survey, mask, weights, iters, n) ==
    IF n = 0 THEN Zeros(NColumns(mtype, mask))
    ELSE LET g == iters[n][1]
             i == iters[n][2]
         IN  DiagonalGtgFunc(variant, mtype, survey[g].components[i + 1],
                             survey[g].receivers, mask, weights,
                             DiagonalLoop(variant, mtype, survey, mask, weights, iters, n - 1))

\* Simulation3DIntegral._gtg_diagonal_without_building_g(weights): every
\* component of every group is handed the whole weights array
_gtg_diagonal_without_building_g(mtype, survey, mask, weights) ==
    IF HasUnsupported(survey) THEN Raise("NotImplementedError")
    ELSE LET iters == Iterations(survey, Len(survey))
         IN  Return(DiagonalLoop("3D", mtype, survey, mask, weights, iters, Len(iters)))

(***************************************************************************)
(* SimulationEquivalentSourceLayer: the same four modes over the 2D        *)
(* footprint kernels.                                                      *)
(***************************************************************************)
ESL_forward(mtype, survey, mask, model) ==
    IF HasUnsupported(survey) THEN Raise("NotImplementedError")
    ELSE LET iters == Iterations(survey, Len(survey))
         IN  Return(ForwardLoop("layer", mtype, survey, mask, model, iters, Len(iters)))

ESL_sensitivity_matrix(mtype, survey, mask) ==
    IF HasUnsupported(survey) THEN Raise("NotImplementedError")
    ELSE LET iters == Iterations(survey, Len(survey))
         IN  Return(SensitivityLoop("layer", mtype, survey, mask, iters, Len(iters)))

ESL_sensitivity_matrix_transpose_dot_vec(mtype, survey, mask, vector) ==
    IF HasUnsupported(survey) THEN Raise("NotImplementedError")
    ELSE LET iters == Iterations(survey, Len(survey))
         IN  Return(TransposeLoop("layer", mtype, survey, mask, vector, iters, Len(iters)))

ESL_gtg_diagonal_without_building_g(mtype, survey, mask, weights) ==
    IF HasUnsupported(survey) THEN Raise("NotImplementedError")
    ELSE LET iters == Iterations(survey, Len(survey))
         IN  Return(DiagonalLoop("layer", mtype, survey, mask, weights, iters, Len(iters)))

(***************************************************************************)
(* The geoana engine: evaluate_integral and the matrix stacked from it.    *)
(***************************************************************************)
\* (#e, #n, #u) of each entry of KernelNames
KernelCounts ==
    <<<<2, 0, 0>>, <<1, 1, 0>>, <<1, 0, 1>>, <<0, 2, 0>>, <<0, 1, 1>>, <<0, 0, 2>>,
      <<3, 0, 0>>, <<2, 1, 0>>, <<2, 0, 1>>, <<1, 2, 0>>, <<1, 1, 1>>, <<1, 0, 2>>,
      <<0, 3, 0>>, <<0, 2, 1>>, <<0, 1, 2>>, <<0, 0, 3>>>>

\* the kernel a geoana prism function computes: letter x, y, z of the function
\* name differentiates along its first, second, third argument (dx, dy or dz)
GeoanaKernelName(func, args) ==
    LET pos(l) == IF l = "x" THEN 1 ELSE IF l = "y" THEN 2 ELSE 3
        cnt(d) == Cardinality({q \in 1 .. Len(func) : args[pos(func[q])] = d})
        c == <<cnt("dx"), cnt("dy"), cnt("dz")>>
    IN  KernelNames[CHOOSE i \in 1 .. Len(KernelNames) : KernelCounts[i] = c]

prism_fzz == <<"z", "z">>
prism_fzx == <<"z", "x">>
prism_fzy == <<"z", "y">>
prism_fzzz == <<"z", "z", "z">>
prism_fxxy == <<"x", "x", "y">>
prism_fxxz == <<"x", "x", "z">>
prism_fxyz == <<"x", "y", "z">>

\* node_evals[key] = func(args): one more call of a prism function; n counts
\* the calls made for key
Put(d, key, func, args) ==
    (key :> [func |-> func, args |-> args,
             n |-> IF key \in DOMAIN d THEN d[key].n + 1 ELSE 1]) @@ d

\* the assignment without its "if key not in node_evals"
PutAgain(d, key, func, args) == Put(d, key, func, args)

\* if key not in node_evals: node_evals[key] = func(args)
PutIfAbsent(d, key, func, args) == IF key \in DOMAIN d THEN d ELSE Put(d, key, func, args)

Has(components, names) == \E i \in 1 .. Len(components) : components[i] \in names

\* one "if some component is listed:" block of evaluate_integral: its
\* assignments <<key, func, args, guarded>> in order, guarded meaning
\* "if key not in node_evals"
RECURSIVE Assignments(_, _, _)
Assignments(d, puts, n) ==
    IF n = 0 THEN d
    ELSE IF puts[n][4]
    THEN PutIfAbsent(Assignments(d, puts, n - 1), puts[n][1], puts[n][2], puts[n][3])
    ELSE Put(Assignments(d, puts, n - 1), puts[n][1], puts[n][2], puts[n][3])

\* the block entered for its own component only, not for the tmi component
\* that reads the same kernels
BlockOfOwnComponent(d, components, names, puts) ==
    IF Has(components, names \ {"tmi", "tmi_x", "tmi_y", "tmi_z"})
    THEN Assignments(d, puts, Len(puts)) ELSE d

\* one "if ... in components or ... in components:" block
Block(d, components, names, puts) ==
    IF Has(components, names) THEN Assignments(d, puts, Len(puts)) ELSE d

\* the node kernels evaluate_integral computes for a component list
NodeEvals(components) ==
    LET e0 == [x \in {} |-> 0]
        e1 == Block(e0, components, {"bx", "tmi"},
                    <<<<"gxx", prism_fzz, <<"dy", "dz", "dx">>, FALSE>>,
                      <<"gxy", prism_fzx, <<"dy", "dz", "dx">>, FALSE>>,
                      <<"gxz", prism_fzy, <<"dy", "dz", "dx">>, FALSE>>>>)
        e2 == Block(e1, components, {"by", "tmi"},
                    <<<<"gxy", prism_fzx, <<"dy", "dz", "dx">>, TRUE>>,
                      <<"gyy", prism_fzz, <<"dz", "dx", "dy">>, FALSE>>,
                      <<"gyz", prism_fzy, <<"dx", "dy", "dz">>, FALSE>>>>)
        e3 == Block(e2, components, {"bz", "tmi"},
                    <<<<"gxz", prism_fzy, <<"dy", "dz", "dx">>, TRUE>>,
                      <<"gyz", prism_fzy, <<"dx", "dy", "dz">>, TRUE>>,
                      <<"gzz", prism_fzz, <<"dx", "dy", "dz">>, FALSE>>>>)
        e4 == Block(e3, components, {"bxx", "tmi_x"},
                    <<<<"gxxx", prism_fzzz, <<"dy", "dz", "dx">>, FALSE>>,
                      <<"gxxy", prism_fxxy, <<"dx", "dy", "dz">>, FALSE>>,
                      <<"gxxz", prism_fxxz, <<"dx", "dy", "dz">>, FALSE>>>>)
        e5 == Block(e4, components, {"bxy", "tmi_x", "tmi_y"},
                    <<<<"gxxy", prism_fxxy, <<"dx", "dy", "dz">>, TRUE>>,
                      <<"gyyx", prism_fxxz, <<"dy", "dz", "dx">>, FALSE>>,
                      <<"gxyz", prism_fxyz, <<"dx", "dy", "dz">>, FALSE>>>>)
        e6 == Block(e5, components, {"bxz", "tmi_x", "tmi_z"},
                    <<<<"gxxz", prism_fxxz, <<"dx", "dy", "dz">>, TRUE>>,
                      <<"gxyz", prism_fxyz, <<"dx", "dy", "dz">>, TRUE>>,
                      <<"gzzx", prism_fxxy, <<"dz", "dx", "dy">>, FALSE>>>>)
        e7 == Block(e6, components, {"byy", "tmi_y"},
                    <<<<"gyyx", prism_fxxz, <<"dy", "dz", "dx">>, TRUE>>,
                      <<"gyyy", prism_fzzz, <<"dz", "dx", "dy">>, FALSE>>,
                      <<"gyyz", prism_fxxy, <<"dy", "dz", "dx">>, FALSE>>>>)
        e8 == Block(e7, components, {"byz", "tmi_y", "tmi_z"},
                    <<<<"gxyz", prism_fxyz, <<"dx", "dy", "dz">>, TRUE>>,
                      <<"gyyz", prism_fxxy, <<"dy", "dz", "dx">>, TRUE>>,
                      <<"gzzy", prism_fxxz, <<"dz", "dx", "dy">>, FALSE>>>>)
        e9 == Block(e8, components, {"bzz", "tmi_z"},
                    <<<<"gzzx", prism_fxxy, <<"dz", "dx", "dy">>, TRUE>>,
                      <<"gzzy", prism_fxxz, <<"dz", "dx", "dy">>, TRUE>>,
                      <<"gzzz", prism_fzzz, <<"dx", "dy", "dz">>, FALSE>>>>)
    IN  e9

\* the node kernels (x, y, z rows of three names each) a component reads
ComponentReads ==
    [bx |-> <<"gxx", "gxy", "gxz">>,
     by |-> <<"gxy", "gyy", "gyz">>,
     bz |-> <<"gxz", "gyz", "gzz">>,
     bxx |-> <<"gxxx", "gxxy", "gxxz">>,
     bxy |-> <<"gxxy", "gyyx", "gxyz">>,
     bxz |-> <<"gxxz", "gxyz", "gzzx">>,
     byy |-> <<"gyyx", "gyyy", "gyyz">>,
     byz |-> <<"gxyz", "gyyz", "gzzy">>,
     bzz |-> <<"gzzx", "gzzy", "gzzz">>]

\* tmi, tmi_x, tmi_y, tmi_z: vals_a = tmi[0] * n1 + tmi[1] * n2 + tmi[2] * n3
\* with (n1, n2, n3) the reads of the component listed for axis a
TmiReads ==
    [tmi |-> <<"bx", "by", "bz">>,
     tmi_x |-> <<"bxx", "bxy", "bxz">>,
     tmi_y |-> <<"bxy", "byy", "byz">>,
     tmi_z |-> <<"bxz", "byz", "bzz">>]

\* the keys of node_evals the branch of a component looks up
NodeReads(component) ==
    IF component \in DOMAIN TmiReads
    THEN {ComponentReads[TmiReads[component][a]][d] : a \in 1 .. 3, d \in 1 .. 3}
    ELSE {ComponentReads[component][d] : d \in 1 .. 3}

\* the value of a node kernel summed over the corners of one cell
NodeValue(node_evals, key, loc, cell) ==
    KernelEval("3D", GeoanaKernelName(node_evals[key].func, node_evals[key].args),
               loc, cell)

\* (cell_eval_x, cell_eval_y, cell_eval_z) of one component for one cell
CellEval(node_evals, component, loc, cell) ==
    IF component \in DOMAIN TmiReads
    THEN [a \in 0 .. 2 |->
            SumTo([d \in 0 .. 2 |->
                RegionalField[d]
                    * NodeValue(node_evals, ComponentReads[TmiReads[component][a + 1]][d + 1],
                                loc, cell)], 3) \div Amplitude]
    ELSE [a \in 0 .. 2 |->
            NodeValue(node_evals, ComponentReads[component][a + 1], loc, cell)]

\* cell_vals with the three axes of one cell side by side (cell-major) in place
\* of np.r_[cell_eval_x, cell_eval_y, cell_eval_z]
CellValsCellMajor(node_evals, mtype, component, loc, mask) ==
    [j \in 0 .. NColumns(mtype, mask) - 1 |->
        IF mtype = "vector"
        THEN CellEval(node_evals, component, loc,
                      ActiveCell(mask, j \div 3))[j % 3] * Amplitude
        ELSE LET t == CellEval(node_evals, component, loc, ActiveCell(mask, j))
             IN  SumTo([a \in 0 .. 2 |-> t[a] * RegionalField[a]], 3)]

\* cell_vals of one component: r_[x, y, z] * amplitude for a vector model,
\* x * M[:, 0] + y * M[:, 1] + z * M[:, 2] with M = b0 for a scalar model
CellVals(node_evals, mtype, component, loc, mask) ==
    LET nC == Cardinality(mask)
    IN  [j \in 0 .. NColumns(mtype, mask) - 1 |->
            IF mtype = "vector"
            THEN CellEval(node_evals, component, loc,
                          ActiveCell(mask, j % nC))[j \div nC] * Amplitude
            ELSE LET t == CellEval(node_evals, component, loc, ActiveCell(mask, j))
                 IN  SumTo([a \in 0 .. 2 |-> t[a] * RegionalField[a]], 3)]

\* the string-hash seed of the interpreter process
VARIABLES hash_seed

\* the names a receiver can be asked for, the last one outside the
\* vocabulary of both engines
ComponentNames ==
    <<"tmi", "bx", "by", "bz", "bxx", "byy", "bzz", "bxy", "bxz", "byz",
      "tmi_x", "tmi_y", "tmi_z", "bq">>

ComponentIndex(c) == CHOOSE i \in 1 .. Len(ComponentNames) : ComponentNames[i] = c

\* hash(c) under the hash seed of the process: the slot of c in a set of
\* strings.  The seed 16 iterates a set in the reverse of the order of the seed 1
Hash(c, seed) == (ComponentIndex(c) * seed) % 17

\* the distinct entries of components in the order set(components) iterates
RECURSIVE SetIteration(_, _)
SetIteration(names, seed) ==
    IF names = {} THEN << >>
    ELSE LET c == CHOOSE x \in names :
                    \A y \in names : Hash(x, seed) <= Hash(y, seed)
         IN  <<c>> \o SetIteration(names \ {c}, seed)

\* the if / elif chain of the loop names the component: every other one
\* falls through it
InChain(component) == component \in DOMAIN TmiReads \cup DOMAIN ComponentReads

\* the loop "for component in set(components)" after n iterations.  bound is
\* the component whose vals_x, vals_y, vals_z the local names hold: a
\* component outside the chain leaves them as the iteration before left
\* them, and reads them unbound when it is the first; a branch that looks
\* up a key node_evals does not hold raises KeyError
RECURSIVE RowsLoop(_, _, _, _, _, _, _, _)
RowsLoop(node_evals, mtype, store, loc, mask, chi, order, n) ==
    IF n = 0 THEN [raised |-> "no", bound |-> << >>, rows |-> [x \in {} |-> << >>]]
    ELSE Only({IF prev.raised # "no" THEN prev
               ELSE IF ~InChain(order[n]) /\ prev.bound = << >>
               THEN [prev EXCEPT !.raised = "UnboundLocalError"]
               ELSE IF InChain(order[n])
                       /\ ~(NodeReads(order[n]) \subseteq DOMAIN node_evals)
               THEN [prev EXCEPT !.raised = "KeyError"]
               ELSE Only({[raised |-> "no", bound |-> <<b>>,
                           rows |-> (order[n] :>
                                        IF store = "forward_only"
                                        THEN Dot(CellVals(node_evals, mtype, b, loc, mask),
                                                 chi)
                                        ELSE CellVals(node_evals, mtype, b, loc, mask))
                                    @@ prev.rows] :
                            b \in {IF InChain(order[n]) THEN order[n]
                                   ELSE prev.bound[1]}}) :
                 prev \in {RowsLoop(node_evals, mtype, store, loc, mask, chi, order,
                                    n - 1)}})

\* Simulation3DIntegral.evaluate_integral(receiver_location, components): one
\* row per entry of components; under forward_only the row times chi
evaluate_integral(mtype, store, loc, components, mask, chi) ==
    Only({IF done.raised # "no" THEN Raise(done.raised)
          ELSE Return([k \in 0 .. Len(components) - 1 |-> done.rows[components[k + 1]]]) :
            done \in {RowsLoop(node_evals, mtype, store, loc, mask, chi, order,
                               Len(order)) :
                        node_evals \in {NodeEvals(components)},
                        order \in {SetIteration({components[k] :
                                                    k \in 1 .. Len(components)},
                                                hash_seed)}}})

\* the (group, receiver) pairs in survey order
RECURSIVE Locations(_, _)
Locations(survey, g) ==
    IF g = 0 THEN << >>
    ELSE Locations(survey, g - 1)
            \o [r \in 1 .. Len(survey[g].receivers) |-> <<g, r>>]

\* the rows of the first n receivers, or the exception one of their
\* evaluate_integral calls raised
RECURSIVE StackRows(_, _, _, _, _, _, _)
StackRows(mtype, store, survey, mask, chi, locs, n) ==
    IF n = 0 THEN Return(<< >>)
    ELSE Only({IF above.raised # "no" THEN above
               ELSE IF rows.raised # "no" THEN rows
               ELSE Return(above.value[1]
                            \o [k \in 1 .. Len(survey[locs[n][1]].components) |->
                                    rows.value[1][k - 1]]) :
                 above \in {StackRows(mtype, store, survey, mask, chi, locs, n - 1)},
                 rows \in {evaluate_integral(
                               mtype, store,
                               survey[locs[n][1]].receivers[locs[n][2]],
                               survey[locs[n][1]].components, mask, chi)}})

\* BasePFSimulation.linear_operator(): evaluate_integral of every receiver
\* stacked in survey order (the data vector itself under forward_only)
linear_operator(mtype, store, survey, mask, chi) ==
    Only({IF rows.raised # "no" THEN rows
          ELSE Return([i \in 0 .. Len(rows.value[1]) - 1 |-> rows.value[1][i + 1]]) :
            rows \in {StackRows(mtype, store, survey, mask, chi,
                                Locations(survey, Len(survey)),
                                Len(Locations(survey, Len(survey))))}})

(***************************************************************************)
(* The simulation object.                                                  *)
(***************************************************************************)
\* the state: one Simulation3DIntegral object, one Simulation3DDifferential
\* object, and the record of a direct call of an engine method
VARIABLES
    engine,               \* "geoana" or "choclo"
    store_sensitivities,  \* "ram", "disk" or "forward_only"
    numba_parallel,       \* BOOLEAN
    is_amplitude_data,    \* BOOLEAN
    model_type,           \* "scalar" or "vector"
    active_cells,         \* the active-cell mask: a set of mesh cells
    _survey,              \* the survey of the simulation: its receiver groups
    model,                \* the current model, "None" after construction
    _G,                   \* the cached sensitivity matrix or operator
    _ampDeriv,            \* the cached amplitude derivative
    _gtg_diagonal,        \* the cached diagonal of G.T @ W.T @ W @ G
    _weights_sha256,      \* the digest stored with _gtg_diagonal
    call,                 \* what the last operation did and returned
    probe,                \* a direct call of one engine method: inputs and outcome
    differential          \* the Simulation3DDifferential object and its last call

simvars ==
    <<engine, store_sensitivities, numba_parallel, is_amplitude_data, model_type,
      active_cells, _survey, model, _G, _ampDeriv, _gtg_diagonal, _weights_sha256,
      call, hash_seed>>

vars == <<simvars, probe, differential>>

\* an attribute the object does not have (hasattr is False): << >>; an
\* attribute with value v: <<v>>
Unset == << >>

\* the survey the simulation is constructed with unless said otherwise: one
\* group of bx, by, bz receivers
ThreeComponentSurvey ==
    <<[components |-> <<"bx", "by", "bz">>,
       receivers |-> [r \in 1 .. NRecSim |-> r]]>>

\* self.survey
SimSurvey == _survey

\* the masks of NActive consecutive cells of the mesh
ActiveMasks == {s .. s + NActive - 1 : s \in 1 .. NCells - NActive + 1}

\* the models proposed to the simulation: vectors of n_columns entries
ModelVec(k, n) == [j \in 0 .. n - 1 |-> k + (j % 2)]

Models(mtype, mask) == {ModelVec(k, NColumns(mtype, mask)) : k \in 1 .. NModels}

\* chiDeriv of the linear chiMap: chi[i] = m[i] + m[i + 1] (the last is m[n - 1])
ChiDeriv(n) ==
    [i \in 0 .. n - 1 |-> [j \in 0 .. n - 1 |-> IF j = i \/ j = i + 1 THEN 1 ELSE 0]]

\* chi = chiMap * model
Chi(m) == MatVec(ChiDeriv(Size(m)), m)

\* the data weighting matrices handed to getJtJdiag, by their diagonal
WNames == {"None", "W1", "W1neg"}

WDiagonal(w, n) ==
    [i \in 0 .. n - 1 |-> IF w = "W1" THEN 1 + (i % 2) ELSE 0 - (1 + (i % 2))]

\* hashlib.sha256(weights).digest(): one digest per array content
Sha256(weights) == <<"sha256", weights>>

(***************************************************************************)
(* Amplitude data.                                                         *)
(***************************************************************************)
\* b.reshape((3, -1)) in C order: entry [c][r] is b[c n + r]
ReshapeC3(b) ==
    [c \in 0 .. 2 |->
        [r \in 0 .. (Size(b) \div 3) - 1 |-> b[c * (Size(b) \div 3) + r]]]

\* b.reshape((3, -1), order="F"): entry [c][r] is b[c + 3 r]
ReshapeF3(b) == [c \in 0 .. 2 |-> [r \in 0 .. (Size(b) \div 3) - 1 |-> b[c + 3 * r]]]

\* compute_amplitude: the norm over the three components, kept squared
compute_amplitude(b_xyz) ==
    LET a == ReshapeF3(b_xyz)
    IN  [r \in 0 .. (Size(b_xyz) \div 3) - 1 |->
            a[0][r] * a[0][r] + a[1][r] * a[1][r] + a[2][r] * a[2][r]]

\* normalized_fields: entry [c][r] is num[c][r] / sqrt(amp2[r])
normalized_fields(f) == [num |-> ReshapeF3(f), amp2 |-> compute_amplitude(f)]

\* two normalised fields have the same values
SameNormalized(a, b) ==
    /\ DOMAIN a.amp2 = DOMAIN b.amp2
    /\ \A r \in DOMAIN a.amp2 : \A c \in 0 .. 2 :
        /\ (a.num[c][r] >= 0) = (b.num[c][r] >= 0)
        /\ a.num[c][r] * a.num[c][r] * b.amp2[r] = b.num[c][r] * b.num[c][r] * a.amp2[r]

(***************************************************************************)
(* One operation on the simulation object is a thread of steps over the    *)
(* record s: the attributes as the operation has left them so far, the     *)
(* exception raised if any, and what the operation did.                    *)
(***************************************************************************)
Begin ==
    [model |-> model, G |-> _G, ampDeriv |-> _ampDeriv, gtg |-> _gtg_diagonal,
     sha |-> _weights_sha256, raised |-> "no", builds |-> 0, gtg_calls |-> 0,
     gRet |-> << >>, adRet |-> << >>, diagRet |-> << >>, ret |-> << >>,
     updated |-> FALSE]

\* raise e: the rest of the operation is skipped
Throw(s, e) == [s EXCEPT !.raised = e]

\* BaseSimulation._delete_on_model_update: nothing
BaseDeleteOnModelUpdate == {}

\* _delete_on_model_update with "_G" in the list
DeleteGOnModelUpdate ==
    IF is_amplitude_data
    THEN BaseDeleteOnModelUpdate \cup {"_G", "_gtg_diagonal", "_ampDeriv"}
    ELSE BaseDeleteOnModelUpdate \cup {"_G"}

\* Simulation3DIntegral._delete_on_model_update
_delete_on_model_update ==
    IF is_amplitude_data
    THEN BaseDeleteOnModelUpdate \cup {"_gtg_diagonal", "_ampDeriv"}
    ELSE BaseDeleteOnModelUpdate

\* self.model = value: a model that differs from the current one deletes the
\* attributes of _delete_on_model_update
ModelSetter(s, value) ==
    LET updated == s.model # <<value>>
        deletes == _delete_on_model_update
        keep(attr, old) == IF updated /\ attr \in deletes THEN Unset ELSE old
    IN  [s EXCEPT !.model = <<value>>,
                  !.updated = updated,
                  !.G = keep("_G", s.G),
                  !.ampDeriv = keep("_ampDeriv", s.ampDeriv),
                  !.gtg = keep("_gtg_diagonal", s.gtg),
                  !.sha = keep("_weights_sha256", s.sha)]

\* the object G holds: an array (matrix set) or a LinearOperator (matvec and
\* rmatvec set), with the selection its builder read
GObject(kind, builder, matvec, rmatvec, parallel, matrix) ==
    [kind |-> kind, builder |-> builder, matvec |-> matvec, rmatvec |-> rmatvec,
     shape |-> <<SurveyND(SimSurvey), NColumns(model_type, active_cells)>>,
     parallel |-> parallel, cells |-> active_cells, matrix |-> matrix]

\* Simulation3DIntegral._sensitivity_matrix_as_operator()
_sensitivity_matrix_as_operator ==
    GObject("LinearOperator", "_sensitivity_matrix_as_operator", "_forward",
            "_sensitivity_matrix_transpose_dot_vec", << >>, << >>)

\* the array _sensitivity_matrix() returns: a memmap under "disk"
SensitivityMatrixObject(matrix) ==
    GObject(IF store_sensitivities = "disk" THEN "memmap" ELSE "ndarray",
            "_sensitivity_matrix", "", "", <<numba_parallel>>, <<matrix>>)

\* the array linear_operator() returns under "ram" and "disk"
LinearOperatorObject(matrix) ==
    GObject(IF store_sensitivities = "disk" THEN "memmap" ELSE "ndarray",
            "linear_operator", "", "", << >>, <<matrix>>)

\* the match statement with its forward_only cases exchanged between the engines
GDispatchExchanged(e, st) ==
    CASE e = "geoana" /\ st = "forward_only" -> "_sensitivity_matrix_as_operator"
      [] e = "choclo" /\ st = "forward_only" -> "NotImplementedError"
      [] e = "choclo" -> "_sensitivity_matrix"
      [] e = "geoana" -> "linear_operator"

\* match self.engine, self.store_sensitivities: the builder G calls
GDispatch(e, st) ==
    CASE e = "choclo" /\ st = "forward_only" -> "_sensitivity_matrix_as_operator"
      [] e = "choclo" -> "_sensitivity_matrix"
      [] e = "geoana" /\ st = "forward_only" -> "NotImplementedError"
      [] e = "geoana" -> "linear_operator"

\* the outcome of the case of the match statement that G takes
Build(b) ==
    CASE b = "_sensitivity_matrix_as_operator" ->
            Return(_sensitivity_matrix_as_operator)
      [] b = "_sensitivity_matrix" ->
            Only({IF r.raised # "no" THEN r
                  ELSE Return(SensitivityMatrixObject(r.value[1])) :
                    r \in {_sensitivity_matrix(model_type, SimSurvey, active_cells)}})
      [] b = "linear_operator" ->
            Only({IF r.raised # "no" THEN r
                  ELSE Return(LinearOperatorObject(r.value[1])) :
                    r \in {linear_operator(model_type, store_sensitivities, SimSurvey,
                                           active_cells, << >>)}})
      [] OTHER -> Raise("NotImplementedError")

\* G without "if not hasattr(self, "_G")": every access builds
GWithoutCache(s) ==
    IF s.raised # "no" THEN s
    ELSE Only({[s EXCEPT !.G = r.value, !.gRet = <<r>>, !.raised = r.raised,
                         !.builds = IF b = "NotImplementedError"
                                    THEN s.builds ELSE s.builds + 1] :
                 b \in {GDispatch(engine, store_sensitivities)},
                 r \in {Build(GDispatch(engine, store_sensitivities))}})

\* G that assigns _G before the builder has returned: a builder that raises
\* leaves the array as allocated
GAssignedBeforeBuilt(s) ==
    IF s.raised # "no" THEN s
    ELSE IF s.G # Unset THEN [s EXCEPT !.gRet = <<Return(s.G[1])>>]
    ELSE Only({[s EXCEPT !.G = IF r.raised = "no" THEN r.value
                               ELSE <<GObject("ndarray", b, "", "", << >>,
                                              <<EmptyMatrix(SurveyND(SimSurvey))>>)>>,
                         !.gRet = <<r>>, !.raised = r.raised,
                         !.builds = IF b = "NotImplementedError"
                                    THEN s.builds ELSE s.builds + 1] :
                 b \in {GDispatch(engine, store_sensitivities)},
                 r \in {Build(GDispatch(engine, store_sensitivities))}})

\* the property G
G(s) ==
    IF s.raised # "no" THEN s
    ELSE IF s.G # Unset THEN [s EXCEPT !.gRet = <<Return(s.G[1])>>]
    ELSE Only({[s EXCEPT !.G = r.value, !.gRet = <<r>>, !.raised = r.raised,
                         !.builds = IF b = "NotImplementedError"
                                    THEN s.builds ELSE s.builds + 1] :
                 b \in {GDispatch(engine, store_sensitivities)},
                 r \in {Build(GDispatch(engine, store_sensitivities))}})

\* a method of the simulation called through the LinearOperator
CallMethod(name, arg) ==
    IF name = "_forward"
    THEN _forward(model_type, SimSurvey, active_cells, arg).value[1]
    ELSE _sensitivity_matrix_transpose_dot_vec(model_type, SimSurvey, active_cells,
                                               arg).value[1]

\* g @ x
ApplyG(g, x) ==
    IF g.kind = "LinearOperator" THEN CallMethod(g.matvec, x)
    ELSE MatVec(g.matrix[1], x)

\* g.T @ y
ApplyGT(g, y) ==
    IF g.kind = "LinearOperator" THEN CallMethod(g.rmatvec, y)
    ELSE MatTVec(g.matrix[1], g.shape[2], y)

\* row i of g (g an array)
RowOfG(g, i) == g.matrix[1][i]

\* the property ampDeriv
ampDeriv(s) ==
    IF s.raised # "no" THEN s
    ELSE IF s.ampDeriv # Unset THEN [s EXCEPT !.adRet = s.ampDeriv]
    ELSE Only({IF s1.raised # "no" THEN s1
               ELSE Only({[s1 EXCEPT !.ampDeriv = <<v>>, !.adRet = <<v>>] :
                            v \in {normalized_fields(
                                       ApplyG(s1.G[1], Chi(s1.model[1])))}}) :
                 s1 \in {G(s)}})

\* a returned array.  kind "exact": the entries are val; "sqrt": entry i is
\* sqrt(val[i]); "over": entry j is val[j] / den; "over_amplitude": entry i is
\* val[i] / sqrt(den[i]); "sum_over_amplitude": the sum over i of the arrays
\* val[i] / sqrt(den[i])
Value(kind, val, den) == [kind |-> kind, val |-> val, den |-> den]

RECURSIVE ProdTo(_, _)
ProdTo(f, n) == IF n = 0 THEN 1 ELSE f[n - 1] * ProdTo(f, n - 1)

\* the number of data the caller's W weights: the amplitudes under
\* is_amplitude_data, else the rows of G
NData == IF is_amplitude_data THEN SurveyND(SimSurvey) \div 3 ELSE SurveyND(SimSurvey)

\* weights = W.diagonal() ** 2 if W is not None else np.ones(self.survey.nD)
Weights(W) ==
    IF W = "None" THEN Ones(SurveyND(SimSurvey))
    ELSE [i \in 0 .. NData - 1 |-> WDiagonal(W, NData)[i] * WDiagonal(W, NData)[i]]

\* np.einsum("i,ij,ij->j", weights, G, G)
Einsum(weights, g) ==
    [j \in 0 .. g.shape[2] - 1 |->
        SumTo([i \in DOMAIN weights |-> weights[i] * RowOfG(g, i)[j] * RowOfG(g, i)[j]],
              Size(weights))]

\* row = ampDeriv[0, i] * Gx[i] + ampDeriv[1, i] * Gy[i] + ampDeriv[2, i] * Gz[i]
\* times sqrt(amp2[i]), with Gx = G[::3], Gy = G[1::3], Gz = G[2::3]
AmplitudeRow(ad, g, i) ==
    [j \in 0 .. g.shape[2] - 1 |->
        SumTo([c \in 0 .. 2 |-> ad.num[c][i] * RowOfG(g, 3 * i + c)[j]], 3)]

\* the loop of the amplitude case: gtg_diagonal += weights[i] * row * row for
\* i in range(weights.size), over the common denominator of the rows
AmplitudeGtg(weights, ad, g) ==
    [num |-> [j \in 0 .. g.shape[2] - 1 |->
                 SumTo([i \in DOMAIN weights |->
                           weights[i] * AmplitudeRow(ad, g, i)[j] * AmplitudeRow(ad, g, i)[j]
                               * (ProdTo(ad.amp2, Size(weights)) \div ad.amp2[i])],
                       Size(weights))],
     den |-> ProdTo(ad.amp2, Size(weights))]

\* the last two cases of _get_gtg_diagonal, which read G: (_, _, False) and
\* (_, _, True)
GtgFromG(s, weights) ==
    IF ~is_amplitude_data
    THEN Only({IF s1.raised # "no" THEN s1
               ELSE [s1 EXCEPT !.diagRet =
                        <<[num |-> Einsum(weights, s1.G[1]), den |-> 1]>>] :
                 s1 \in {G(s)}})
    ELSE Only({IF s2.raised # "no" THEN s2
               ELSE IF Size(weights) > Size(s2.adRet[1].amp2)
               THEN Throw(s2, "IndexError")
               ELSE [s2 EXCEPT !.diagRet =
                        <<AmplitudeGtg(weights, s2.adRet[1], s2.G[1])>>] :
                 s2 \in {G(s1) : s1 \in {ampDeriv(s)}}})

\* Simulation3DIntegral._get_gtg_diagonal(weights): the outcome is left in
\* diagRet
_get_gtg_diagonal(s, weights) ==
    CASE engine = "geoana" /\ store_sensitivities = "forward_only" ->
            Throw([s EXCEPT !.gtg_calls = s.gtg_calls + 1], "NotImplementedError")
      [] engine = "choclo" /\ store_sensitivities = "forward_only"
            /\ is_amplitude_data ->
            Throw([s EXCEPT !.gtg_calls = s.gtg_calls + 1], "NotImplementedError")
      [] engine = "choclo" /\ store_sensitivities = "forward_only"
            /\ ~is_amplitude_data ->
            Only({[s EXCEPT !.gtg_calls = s.gtg_calls + 1, !.raised = r.raised,
                            !.diagRet = IF r.raised # "no" THEN << >>
                                        ELSE <<[num |-> r.value[1], den |-> 1]>>] :
                    r \in {_gtg_diagonal_without_building_g(model_type, SimSurvey,
                                                            active_cells, weights)}})
      [] OTHER ->
            GtgFromG([s EXCEPT !.gtg_calls = s.gtg_calls + 1], weights)

\* (sdiag(np.sqrt(self._gtg_diagonal)) @ self.chiDeriv).power(2).sum(axis=0)
DiagonalOfJtJ(gtg, n) ==
    Value("over",
          [j \in 0 .. n - 1 |->
              SumTo([i \in 0 .. n - 1 |->
                        gtg.num[i] * ChiDeriv(n)[i][j] * ChiDeriv(n)[i][j]], n)],
          gtg.den)

\* getJtJdiag with use_cached_gtg deaf to the digest
getJtJdiagAnyDigest(s, m, W) ==
    Only({IF s2.raised # "no" THEN s2
          ELSE [s2 EXCEPT !.ret = <<DiagonalOfJtJ(s2.gtg[1], Size(m))>>] :
            s2 \in {IF /\ s1.gtg # Unset
                       /\ s1.sha # Unset
                    THEN [s1 EXCEPT !.diagRet = s1.gtg]
                    ELSE Only({IF t.raised # "no" THEN t
                               ELSE [t EXCEPT !.gtg = t.diagRet,
                                              !.sha = <<weights_sha256>>] :
                                 t \in {_get_gtg_diagonal(s1, weights)}}) :
                      s1 \in {ModelSetter(s, m)},
                      weights \in {Weights(W)},
                      weights_sha256 \in {Sha256(Weights(W))}}})

\* Simulation3DIntegral.getJtJdiag(m, W)
getJtJdiag(s, m, W) ==
    Only({IF s2.raised # "no" THEN s2
          ELSE [s2 EXCEPT !.ret = <<DiagonalOfJtJ(s2.gtg[1], Size(m))>>] :
            s2 \in {IF /\ s1.gtg # Unset
                       /\ s1.sha # Unset
                       /\ s1.sha[1] = weights_sha256
                    THEN [s1 EXCEPT !.diagRet = s1.gtg]
                    ELSE Only({IF t.raised # "no" THEN t
                               ELSE [t EXCEPT !.gtg = t.diagRet,
                                              !.sha = <<weights_sha256>>] :
                                 t \in {_get_gtg_diagonal(s1, weights)}}) :
                      s1 \in {ModelSetter(s, m)},
                      weights \in {Weights(W)},
                      weights_sha256 \in {Sha256(Weights(W))}}})

\* fields that reads G under every storage mode
FieldsOfModelThroughG(s, m) ==
    Only({IF t.raised # "no" THEN t
          ELSE [t EXCEPT !.ret = <<ApplyG(t.G[1], Chi(m))>>] :
            t \in {G(ModelSetter(s, m))}})

\* fields whose forward_only branches are handed the model where the code
\* hands them chi
FieldsOfRawModel(s, m) ==
    IF store_sensitivities = "forward_only"
    THEN IF engine = "choclo"
         THEN Only({IF r.raised # "no" THEN Throw(ModelSetter(s, m), r.raised)
                    ELSE [ModelSetter(s, m) EXCEPT !.ret = r.value] :
                      r \in {_forward(model_type, SimSurvey, active_cells, m)}})
         ELSE Only({IF r.raised # "no" THEN Throw(ModelSetter(s, m), r.raised)
                    ELSE [ModelSetter(s, m) EXCEPT !.ret = r.value] :
                      r \in {linear_operator(model_type, "forward_only", SimSurvey,
                                             active_cells, m)}})
    ELSE Only({IF t.raised # "no" THEN t
               ELSE [t EXCEPT !.ret = <<ApplyG(t.G[1], Chi(m))>>] :
                 t \in {G(ModelSetter(s, m))}})

\* the first lines of fields: the model assignment and the three branches
\* that compute the field
FieldsOfModel(s, m) ==
    IF store_sensitivities = "forward_only"
    THEN IF engine = "choclo"
         THEN Only({IF r.raised # "no" THEN Throw(ModelSetter(s, m), r.raised)
                    ELSE [ModelSetter(s, m) EXCEPT !.ret = r.value] :
                      r \in {_forward(model_type, SimSurvey, active_cells, Chi(m))}})
         ELSE Only({IF r.raised # "no" THEN Throw(ModelSetter(s, m), r.raised)
                    ELSE [ModelSetter(s, m) EXCEPT !.ret = r.value] :
                      r \in {linear_operator(model_type, "forward_only", SimSurvey,
                                             active_cells, Chi(m))}})
    ELSE Only({IF t.raised # "no" THEN t
               ELSE [t EXCEPT !.ret = <<ApplyG(t.G[1], Chi(m))>>] :
                 t \in {G(ModelSetter(s, m))}})

\* fields that computes from the model in place and assigns the new one last
fieldsOfModelInPlace(s, m) ==
    Only({IF s2.raised # "no" THEN s2
          ELSE IF is_amplitude_data
          THEN [s2 EXCEPT !.ret = <<Value("sqrt", compute_amplitude(s2.ret[1]), << >>)>>]
          ELSE [s2 EXCEPT !.ret = <<Value("exact", s2.ret[1], << >>)>>] :
            s2 \in {ModelSetter(FieldsOfModel(s, IF s.model = Unset THEN m
                                                 ELSE s.model[1]), m)}})

\* Simulation3DIntegral.fields(model)
fields(s, m) ==
    Only({IF s2.raised # "no" THEN s2
          ELSE IF is_amplitude_data
          THEN [s2 EXCEPT !.ret = <<Value("sqrt", compute_amplitude(s2.ret[1]), << >>)>>]
          ELSE [s2 EXCEPT !.ret = <<Value("exact", s2.ret[1], << >>)>>] :
            s2 \in {FieldsOfModel(s, m)}})

\* Jvec.reshape((-1, 3)).T, times ampDeriv, summed over the three rows
AmplitudeJvec(ad, J) ==
    Value("over_amplitude",
          [r \in DOMAIN ad.amp2 |->
              SumTo([c \in 0 .. 2 |-> ad.num[c][r] * J[3 * r + c]], 3)],
          ad.amp2)

\* Simulation3DIntegral.Jvec(m, v)
Jvec(s, m, v) ==
    Only({IF s2.raised # "no" THEN s2
          ELSE IF ~is_amplitude_data
          THEN [s2 EXCEPT !.ret =
                   <<Value("exact", ApplyG(s2.G[1], MatVec(ChiDeriv(Size(m)), v)), << >>)>>]
          ELSE Only({IF s3.raised # "no" THEN s3
                     ELSE [s3 EXCEPT !.ret = <<AmplitudeJvec(s3.adRet[1], J)>>] :
                       s3 \in {ampDeriv(s2)},
                       J \in {ApplyG(s2.G[1], MatVec(ChiDeriv(Size(m)), v))}}) :
            s2 \in {G(ModelSetter(s, m))}})

\* (ampDeriv * v).T.reshape(-1), the part of receiver r
AmplitudeTimes(ad, v, r) ==
    [i \in 0 .. 3 * Size(ad.amp2) - 1 |->
        IF i \div 3 = r THEN ad.num[i % 3][r] * v[r] ELSE 0]

\* Jtvec with chiDeriv in place of chiDeriv.T
JtvecWithoutTranspose(s, m, v) ==
    IF is_amplitude_data
    THEN Only({IF s3.raised # "no" THEN s3
               ELSE [s3 EXCEPT !.ret =
                        <<Value("sum_over_amplitude",
                                [r \in DOMAIN s3.adRet[1].amp2 |->
                                    MatVec(ChiDeriv(Size(m)),
                                            ApplyGT(s3.G[1],
                                                    AmplitudeTimes(s3.adRet[1], v, r)))],
                                s3.adRet[1].amp2)>>] :
                 s3 \in {G(s2) : s2 \in {ampDeriv(ModelSetter(s, m))}}})
    ELSE Only({IF s2.raised # "no" THEN s2
               ELSE [s2 EXCEPT !.ret =
                        <<Value("exact",
                                MatVec(ChiDeriv(Size(m)), ApplyGT(s2.G[1], v)),
                                << >>)>>] :
                 s2 \in {G(ModelSetter(s, m))}})

\* Simulation3DIntegral.Jtvec(m, v)
Jtvec(s, m, v) ==
    IF is_amplitude_data
    THEN Only({IF s3.raised # "no" THEN s3
               ELSE [s3 EXCEPT !.ret =
                        <<Value("sum_over_amplitude",
                                [r \in DOMAIN s3.adRet[1].amp2 |->
                                    MatTVec(ChiDeriv(Size(m)), Size(m),
                                            ApplyGT(s3.G[1],
                                                    AmplitudeTimes(s3.adRet[1], v, r)))],
                                s3.adRet[1].amp2)>>] :
                 s3 \in {G(s2) : s2 \in {ampDeriv(ModelSetter(s, m))}}})
    ELSE Only({IF s2.raised # "no" THEN s2
               ELSE [s2 EXCEPT !.ret =
                        <<Value("exact",
                                MatTVec(ChiDeriv(Size(m)), Size(m), ApplyGT(s2.G[1], v)),
                                << >>)>>] :
                 s2 \in {G(ModelSetter(s, m))}})

\* the matrix of G @ chiDeriv, column by column
GTimesChiDeriv(g, n) ==
    Value(IF g.kind = "LinearOperator" THEN "LinearOperator" ELSE "exact",
          [i \in 0 .. g.shape[1] - 1 |->
              [j \in 0 .. n - 1 |->
                  ApplyG(g, [k \in 0 .. n - 1 |-> ChiDeriv(n)[k][j]])[i]]],
          << >>)

\* getJ that assigns the model before it tests is_amplitude_data
getJAssigningFirst(s, m) ==
    IF is_amplitude_data THEN Throw(ModelSetter(s, m), "NotImplementedError")
    ELSE Only({IF s2.raised # "no" THEN s2
               ELSE [s2 EXCEPT !.ret = <<GTimesChiDeriv(s2.G[1], Size(m))>>] :
                 s2 \in {G(ModelSetter(s, m))}})

\* Simulation3DIntegral.getJ(m)
getJ(s, m) ==
    IF is_amplitude_data THEN Throw(s, "NotImplementedError")
    ELSE Only({IF s2.raised # "no" THEN s2
               ELSE [s2 EXCEPT !.ret = <<GTimesChiDeriv(s2.G[1], Size(m))>>] :
                 s2 \in {G(ModelSetter(s, m))}})

(***************************************************************************)
(* The operations of the simulation object.  call is what the last         *)
(* operation was and what it did: the exception it raised, the builders of *)
(* G and the _get_gtg_diagonal calls it made, what G, ampDeriv and the     *)
(* GtG diagonal gave it, and what it returned.                             *)
(***************************************************************************)
StoreModes == {"ram", "disk", "forward_only"}

Engines == {"geoana", "choclo"}

ModelTypes == {"scalar", "vector"}

\* the vectors handed to Jvec (model space) and Jtvec (data space)
ModelSpaceVectors == {ModelVec(0, NColumns(model_type, active_cells))}

DataSpaceVectors == {[i \in 0 .. NData - 1 |-> 1 + i]}

\* the same with the unit vectors of each space
UnitVectors(n) == {[i \in 0 .. n - 1 |-> IF i = k THEN 1 ELSE 0] : k \in 0 .. n - 1}

AllModelSpaceVectors ==
    ModelSpaceVectors \cup UnitVectors(NColumns(model_type, active_cells))

AllDataSpaceVectors == DataSpaceVectors \cup UnitVectors(NData)

NoCall(op) ==
    [op |-> op, m |-> << >>, v |-> << >>, W |-> "", raised |-> "no", builds |-> 0,
     gtg_calls |-> 0, gRet |-> << >>, adRet |-> << >>, diagRet |-> << >>,
     ret |-> << >>, updated |-> FALSE]

\* the attributes and the record of the operation, as the thread s left them
Finish(s, op, m, v, W) ==
    /\ model' = s.model
    /\ _G' = s.G
    /\ _ampDeriv' = s.ampDeriv
    /\ _gtg_diagonal' = s.gtg
    /\ _weights_sha256' = s.sha
    /\ call' = [op |-> op, m |-> m, v |-> v, W |-> W, raised |-> s.raised,
                builds |-> s.builds, gtg_calls |-> s.gtg_calls, gRet |-> s.gRet,
                adRet |-> s.adRet, diagRet |-> s.diagRet,
                ret |-> IF s.raised = "no" THEN s.ret ELSE << >>,
                updated |-> s.updated]
    /\ UNCHANGED <<engine, store_sensitivities, numba_parallel, is_amplitude_data,
                   model_type, active_cells, probe, _survey, hash_seed,
                   differential>>

\* an engine setter that keeps the cached G
SetEngineKeepingG(e) ==
    /\ e # engine
    /\ engine' = e
    /\ call' = NoCall("engine")
    /\ UNCHANGED <<store_sensitivities, numba_parallel, is_amplitude_data, model_type,
                   active_cells, model, _G, _ampDeriv, _gtg_diagonal, _weights_sha256,
                   probe, _survey, hash_seed,
                   differential>>

\* BasePFSimulation.engine setter: a new engine drops the cached G
SetEngine(e) ==
    /\ e # engine
    /\ engine' = e
    /\ _G' = Unset
    /\ call' = NoCall("engine")
    /\ UNCHANGED <<store_sensitivities, numba_parallel, is_amplitude_data, model_type,
                   active_cells, model, _ampDeriv, _gtg_diagonal, _weights_sha256, probe, _survey, hash_seed,
                   differential>>

\* BasePFSimulation.numba_parallel setter: a new value drops the cached G
SetNumbaParallel(b) ==
    /\ b # numba_parallel
    /\ numba_parallel' = b
    /\ _G' = Unset
    /\ call' = NoCall("numba_parallel")
    /\ UNCHANGED <<engine, store_sensitivities, is_amplitude_data, model_type,
                   active_cells, model, _ampDeriv, _gtg_diagonal, _weights_sha256, probe, _survey, hash_seed,
                   differential>>

\* BasePFSimulation.active_cells setter: a new mask drops G and what was
\* computed from it
SetActiveCells(mask) ==
    /\ mask # active_cells
    /\ active_cells' = mask
    /\ _G' = Unset
    /\ _ampDeriv' = Unset
    /\ _gtg_diagonal' = Unset
    /\ _weights_sha256' = Unset
    /\ call' = NoCall("active_cells")
    /\ UNCHANGED <<engine, store_sensitivities, numba_parallel, is_amplitude_data,
                   model_type, model, probe, _survey, hash_seed,
                   differential>>

\* Simulation3DIntegral.is_amplitude_data setter
SetIsAmplitudeData(b) ==
    /\ is_amplitude_data' = b
    /\ call' = NoCall("is_amplitude_data")
    /\ UNCHANGED <<engine, store_sensitivities, numba_parallel, model_type,
                   active_cells, model, _G, _ampDeriv, _gtg_diagonal, _weights_sha256,
                   probe, _survey, hash_seed,
                   differential>>

\* a read of simulation.G
AccessG == \E s \in {G(Begin)} : Finish(s, "G", << >>, << >>, "")

CallFields(m) == \E s \in {fields(Begin, m)} : Finish(s, "fields", <<m>>, << >>, "")

CallJvec(m, v) == \E s \in {Jvec(Begin, m, v)} : Finish(s, "Jvec", <<m>>, <<v>>, "")

CallJtvec(m, v) == \E s \in {Jtvec(Begin, m, v)} : Finish(s, "Jtvec", <<m>>, <<v>>, "")

CallGetJ(m) == \E s \in {getJ(Begin, m)} : Finish(s, "getJ", <<m>>, << >>, "")

CallGetJtJdiag(m, W) ==
    \E s \in {getJtJdiag(Begin, m, W)} : Finish(s, "getJtJdiag", <<m>>, << >>, W)

(***************************************************************************)
(* Direct calls of the engine methods of Simulation3DIntegral ("3D") and   *)
(* SimulationEquivalentSourceLayer ("layer") on a survey.                  *)
(***************************************************************************)
\* the component lists of the receiver groups
ComponentLists == {<<"tmi">>, <<"bx", "bz">>, <<"tmi_x", "by", "bzz">>}

\* a group of n receivers at the locations first + 1 .. first + n
Group(components, first, n) ==
    [components |-> components, receivers |-> [r \in 1 .. n |-> first + r]]

\* the surveys of one group and of two groups, at most MaxRec receivers each
Surveys ==
    {<<Group(c, 0, n)>> : c \in ComponentLists, n \in 1 .. MaxRec}
        \cup {<<Group(c1, 0, 1), Group(c2, 1, n)>> :
                c1 \in ComponentLists, c2 \in ComponentLists, n \in 1 .. MaxRec}

Variants == {"3D", "layer"}

\* the model, data-space and weight arrays handed to the engine methods
EngineModels(p) == {ModelVec(k, NColumns(p.model_type, p.cells)) : k \in 1 .. NModels}

EngineVectors(p) ==
    {[i \in 0 .. SurveyND(p.survey) - 1 |-> IF i = k THEN 1 ELSE 0] :
        k \in 0 .. SurveyND(p.survey) - 1}
        \cup {[i \in 0 .. SurveyND(p.survey) - 1 |-> 1 + i]}

EngineWeights(p) ==
    {Ones(SurveyND(p.survey)), [i \in 0 .. SurveyND(p.survey) - 1 |-> 1 + i]}

NoProbe ==
    [variant |-> "3D", model_type |-> "scalar", survey |-> ThreeComponentSurvey,
     cells |-> 1 .. NActive, op |-> "", arg |-> << >>, out |-> Raise("")]

Probed(op, arg, out) ==
    /\ probe' = [probe EXCEPT !.op = op, !.arg = <<arg>>, !.out = out]
    /\ UNCHANGED <<simvars, differential>>

Forward(m) ==
    Probed("_forward", m,
           IF probe.variant = "3D"
           THEN _forward(probe.model_type, probe.survey, probe.cells, m)
           ELSE ESL_forward(probe.model_type, probe.survey, probe.cells, m))

SensitivityMatrix ==
    Probed("_sensitivity_matrix", << >>,
           IF probe.variant = "3D"
           THEN _sensitivity_matrix(probe.model_type, probe.survey, probe.cells)
           ELSE ESL_sensitivity_matrix(probe.model_type, probe.survey, probe.cells))

TransposeDotVec(v) ==
    Probed("_sensitivity_matrix_transpose_dot_vec", v,
           IF probe.variant = "3D"
           THEN _sensitivity_matrix_transpose_dot_vec(probe.model_type, probe.survey,
                                                      probe.cells, v)
           ELSE ESL_sensitivity_matrix_transpose_dot_vec(probe.model_type, probe.survey,
                                                         probe.cells, v))

GtgDiagonal(w) ==
    Probed("_gtg_diagonal_without_building_g", w,
           IF probe.variant = "3D"
           THEN _gtg_diagonal_without_building_g(probe.model_type, probe.survey,
                                                 probe.cells, w)
           ELSE ESL_gtg_diagonal_without_building_g(probe.model_type, probe.survey,
                                                    probe.cells, w))

\* what _forward returns, with its dtype: the array allocated by
\* np.zeros(self.survey.nD, dtype=self.sensitivity_dtype), which the forward
\* functions fill in place
ForwardArray(variant, dtype, mtype, survey, mask, m) ==
    Only({IF r.raised # "no" THEN r
          ELSE Return([dtype |-> dtype, data |-> r.value[1]]) :
            r \in {IF variant = "3D" THEN _forward(mtype, survey, mask, m)
                   ELSE ESL_forward(mtype, survey, mask, m)}})

\* dtype=np.float64 of the LinearOperator of _sensitivity_matrix_as_operator
OperatorDtype == "float64"

\* a call of _forward, with the dtype of the array it returns
ForwardTyped(m) ==
    Probed("_forward.dtype", m,
           ForwardArray(probe.variant, probe.sensitivity_dtype, probe.model_type,
                        probe.survey, probe.cells, m))

\* _sensitivity_matrix_as_operator() @ m: the operator hands back the array
\* its matvec function returned; declared is the dtype of the operator
OperatorMatvec(m) ==
    Probed("G.matvec", m,
           Only({IF r.raised # "no" THEN r
                 ELSE Return([declared |-> OperatorDtype] @@ r.value[1]) :
                   r \in {ForwardArray(probe.variant, probe.sensitivity_dtype,
                                       probe.model_type, probe.survey, probe.cells,
                                       m)}}))

(***************************************************************************)
(* Simulation3DDifferential: the fields and their derivatives.  The        *)
(* arithmetic is exact: a number is the fraction <<n, d>> in lowest terms  *)
(* with d > 0, a vector is a function over 0 .. n - 1 of fractions, a      *)
(* matrix a function over its rows, and sdiag(d) is kept as the vector d.  *)
(***************************************************************************)
\* a function with its values computed
Array(f) == f @@ << >>

\* n / d in lowest terms
Frac(n, d) ==
    Only({<<(IF d < 0 THEN -n ELSE n) \div g, (IF d < 0 THEN -d ELSE d) \div g>> :
            g \in {Gcd(IF n < 0 THEN -n ELSE n, IF d < 0 THEN -d ELSE d)}})

\* x + y over the least common denominator
QAdd(x, y) ==
    Only({Only({Frac(a[1] * (b[2] \div g) + b[1] * (a[2] \div g), a[2] * (b[2] \div g)) :
                  g \in {Gcd(a[2], b[2])}}) :
            a \in {x}, b \in {y}})

QSub(x, y) == Only({QAdd(x, <<-b[1], b[2]>>) : b \in {y}})

\* x * y, reduced crosswise before the products are taken
QMul(x, y) ==
    Only({Only({<<p[1] * q[1], p[2] * q[2]>> :
                  p \in {Frac(a[1], b[2])}, q \in {Frac(b[1], a[2])}}) :
            a \in {x}, b \in {y}})

QDiv(x, y) == Only({QMul(x, Frac(b[2], b[1])) : b \in {y}})

RECURSIVE QSum(_, _)
\* f[0] + ... + f[n-1]
QSum(f, n) == IF n = 0 THEN <<0, 1>> ELSE QAdd(f[n - 1], QSum(f, n - 1))

\* an array of integers as an array of floats
QVec(x) == Array([i \in DOMAIN x |-> <<x[i], 1>>])

\* a * x for a matrix a and a vector x
QMatVec(a, x) ==
    Array([i \in DOMAIN a |-> QSum([j \in DOMAIN x |-> QMul(a[i][j], x[j])], Size(x))])

\* a.T * y for a matrix a of ncols columns
QMatTVec(a, ncols, y) ==
    Array([j \in 0 .. ncols - 1 |->
              QSum([i \in DOMAIN y |-> QMul(a[i][j], y[i])], Size(y))])

\* sdiag(d) * x
sdiag(d, x) == Array([i \in DOMAIN x |-> QMul(d[i], x[i])])

\* x - y
QVSub(x, y) == Array([i \in DOMAIN x |-> QSub(x[i], y[i])])

\* <x, y>
QDot(x, y) == QSum([i \in DOMAIN x |-> QMul(x[i], y[i])], Size(x))

\* the array of the entries of a tuple
FromTuple(t) == Array([i \in 0 .. Len(t) - 1 |-> t[i + 1]])

\* the matrix of the rows of a tuple of tuples
FromRows(t) == Array([i \in 0 .. Len(t) - 1 |-> FromTuple(t[i + 1])])

\* mu_0, the permeability of free space: a positive constant
mu_0 == <<1, 2>>

\* a mesh of two cells and three faces, one normal to each axis: inner is
\* the diagonal of Pin.T * Pin from get_BC_projections, faceDir the axis of
\* each face (the x faces first), aveF2CC the face-to-cell averaging matrix
ThreeFaceMesh ==
    [dim |-> 3,
     cell_volumes |-> FromTuple(<<1, 2>>),
     face_divergence |-> FromRows(<<<<1, -1, 0>>, <<0, 1, -1>>>>),
     inner |-> FromTuple(<<1, 1, 1>>),
     aveF2CC |-> FromRows(<<<< <<1, 2>>, <<1, 2>>, <<0, 1>> >>,
                            << <<0, 1>>, <<1, 2>>, <<1, 2>> >>>>),
     faceDir |-> FromTuple(<<0, 1, 2>>)]

\* a mesh of two cells and four faces, two of them normal to x and the
\* last one on the boundary
FourFaceMesh ==
    [dim |-> 3,
     cell_volumes |-> FromTuple(<<2, 1>>),
     face_divergence |-> FromRows(<<<<1, -1, 0, 0>>, <<0, 1, -1, 1>>>>),
     inner |-> FromTuple(<<1, 1, 1, 0>>),
     aveF2CC |-> FromRows(<<<< <<1, 2>>, <<1, 2>>, <<0, 1>>, <<0, 1>> >>,
                            << <<0, 1>>, <<1, 2>>, <<1, 4>>, <<1, 4>> >>>>),
     faceDir |-> FromTuple(<<0, 0, 1, 2>>)]

Meshes == {ThreeFaceMesh, FourFaceMesh}

\* __init__: self._Div = Mc * Dface * Pin.T * Pin
DivOf(mesh) ==
    Array([c \in DOMAIN mesh.face_divergence |->
              Array([f \in DOMAIN mesh.inner |->
                        <<mesh.cell_volumes[c] * mesh.face_divergence[c][f]
                              * mesh.inner[f], 1>>])])

\* mesh.get_face_inner_product(prop) / mesh.dim, as its diagonal:
\* dim * sdiag(aveF2CC.T * (cell_volumes * prop)) over dim
FaceInnerProductOverDim(mesh, prop) ==
    Array([f \in DOMAIN mesh.inner |->
              QDiv(QMul(<<mesh.dim, 1>>,
                        QSum([c \in DOMAIN prop |->
                                 QMul(mesh.aveF2CC[c][f],
                                      QMul(<<mesh.cell_volumes[c], 1>>, prop[c]))],
                             Size(prop))),
                   <<mesh.dim, 1>>)])

\* self.muMap * m for the ChiMap of the mesh: mu_0 * (1 + m)
muMap(m) == Array([c \in DOMAIN m |-> QMul(mu_0, QAdd(<<1, 1>>, m[c]))])

\* self.muDeriv, self.mapping.deriv(m): mu_0 on the diagonal
muDeriv(m) ==
    Array([c \in DOMAIN m |->
              Array([j \in DOMAIN m |-> IF j = c THEN mu_0 ELSE <<0, 1>>])])

\* 1.0 / x
Reciprocal(x) == Array([i \in DOMAIN x |-> QDiv(<<1, 1>>, x[i])])

\* makeMassMatrices(m): the diagonals of _MfMui, _MfMuI and _MfMu0
makeMassMatrices(mesh, m) ==
    Only({[_MfMui |-> MfMui,
           _MfMuI |-> Reciprocal(MfMui),
           _MfMu0 |-> FaceInnerProductOverDim(
                          mesh, Array([c \in DOMAIN m |-> QDiv(<<1, 1>>, mu_0)]))] :
            MfMui \in {FaceInnerProductOverDim(mesh, Reciprocal(muMap(m)))}})

\* getB0(): b0[0], b0[1], b0[2] on the x, y and z faces
getB0(mesh) ==
    Array([f \in DOMAIN mesh.faceDir |-> <<RegionalField[mesh.faceDir[f]], 1>>])

\* getA(m) = self._Div * self.MfMuI * self._Div.T
getA(Div, mass) ==
    Array([i \in DOMAIN Div |->
              Array([j \in DOMAIN Div |->
                        QSum([f \in DOMAIN mass._MfMuI |->
                                 QMul(Div[i][f], QMul(mass._MfMuI[f], Div[j][f]))],
                             Size(mass._MfMuI))])])

\* getRHS(m) = self._Div * self.MfMuI * self.MfMu0 * B0 - self._Div * B0
getRHS(Div, mass, B0) ==
    QVSub(QMatVec(Div, sdiag(mass._MfMuI, sdiag(mass._MfMu0, B0))), QMatVec(Div, B0))

\* A.T
Transposed(A) == Array([j \in DOMAIN A[0] |-> Array([i \in DOMAIN A |-> A[i][j]])])

\* self.solver(A) * b: the solution x of A x = b, A of one or two rows
solver(A, b) ==
    IF Size(A) = 1 THEN Array([i \in {0} |-> QDiv(b[0], A[0][0])])
    ELSE Only({Array([i \in {0, 1} |->
                         IF i = 0
                         THEN QDiv(QSub(QMul(b[0], A[1][1]), QMul(A[0][1], b[1])), det)
                         ELSE QDiv(QSub(QMul(A[0][0], b[1]), QMul(A[1][0], b[0])), det)]) :
                 det \in {QSub(QMul(A[0][0], A[1][1]), QMul(A[0][1], A[1][0]))}})

\* fields(m) once makeMassMatrices(m) has set the mass matrices:
\* {"B": B, "u": u}
FieldsOfMass(mesh, Div, mass) ==
    Only({[u |-> u,
           B |-> QVSub(QVSub(sdiag(mass._MfMuI, sdiag(mass._MfMu0, B0)), B0),
                       sdiag(mass._MfMuI, QMatTVec(Div, Size(mesh.inner), u))),
           mass |-> mass] :
            u \in {solver(getA(Div, mass), getRHS(Div, mass, getB0(mesh)))},
            B0 \in {getB0(mesh)}})

(***************************************************************************)
(* Simulation3DDifferential: the survey property.  The object is the       *)
(* record differential: _survey is << >> for None and <<s>> for the survey *)
(* s, attached tells whether a survey was ever attached, and the other     *)
(* fields are the last access of the property and its outcome.             *)
(***************************************************************************)
\* _validate_survey that compares the receivers' components as sets
ValidateSurveyAsSets(obj) ==
    IF Len(obj) = 0 THEN Raise("ValueError")
    ELSE IF \E g \in 1 .. Len(obj) :
                {obj[g].components[i] : i \in 1 .. Len(obj[g].components)}
                    # {obj[1].components[i] : i \in 1 .. Len(obj[1].components)}
    THEN Raise("ValueError")
    ELSE Return(obj)

\* Simulation3DDifferential._validate_survey(survey)
_validate_survey(obj) ==
    IF Len(obj) = 0 THEN Raise("ValueError")
    ELSE IF \E g \in 1 .. Len(obj) : obj[g].components # obj[1].components
    THEN Raise("ValueError")
    ELSE Return(obj)

\* __init__(mesh, survey=None): the object after a construction that passed
DifferentialObject(mesh, obj) ==
    [_survey |-> obj, attached |-> obj # << >>, op |-> "__init__", arg |-> obj,
     raised |-> "no", ret |-> << >>, mesh |-> mesh, _Div |-> DivOf(mesh),
     mass |-> << >>, _Qf |-> Array([axis \in 0 .. 2 |-> << >>])]

\* a getter without the None test
SurveyGetterUnchecked ==
    Return(IF differential._survey = << >> THEN "None" ELSE differential._survey[1])

\* the property survey: its getter
SurveyGetter ==
    IF differential._survey = << >> THEN Raise("AttributeError")
    ELSE Return(differential._survey[1])

\* a read of simulation.survey
GetSurvey ==
    /\ \E r \in {SurveyGetter} :
          differential' = [differential EXCEPT !.op = "survey", !.arg = << >>,
                                               !.raised = r.raised, !.ret = r.value]
    /\ UNCHANGED <<simvars, probe>>

\* simulation.survey = obj, obj being None (<< >>) or a Survey (<<s>>)
SetSurvey(obj) ==
    /\ \E r \in {IF obj = << >> THEN Return(obj) ELSE _validate_survey(obj[1])} :
          differential' =
              [differential EXCEPT
                  !._survey = IF r.raised = "no" THEN obj ELSE differential._survey,
                  !.attached = differential.attached \/ (r.raised = "no" /\ obj # << >>),
                  !.op = "survey.setter", !.arg = obj, !.raised = r.raised,
                  !.ret = << >>]
    /\ UNCHANGED <<simvars, probe>>

\* survey.receiver_locations: the locations of the receivers of every group
RECURSIVE ReceiverLocationsUpTo(_, _)
ReceiverLocationsUpTo(survey, g) ==
    IF g = 0 THEN << >>
    ELSE ReceiverLocationsUpTo(survey, g - 1) \o survey[g].receivers

\* mesh.get_interpolation_matrix(locations, "Fx" / "Fy" / "Fz"): one row per
\* location, its weights on the faces normal to the axis
get_interpolation_matrix(mesh, locations, axis) ==
    Array([r \in 0 .. Len(locations) - 1 |->
              Array([f \in DOMAIN mesh.faceDir |->
                        IF mesh.faceDir[f] = axis
                        THEN Frac(1 + ((locations[r + 1] + f) % 3), 2)
                        ELSE <<0, 1>>])])

\* the properties Qfx, Qfy, Qfz (axis 0, 1, 2): the cached matrix, computed
\* from the survey on the first read
Qf(d, axis) ==
    IF d._Qf[axis] # << >> THEN d._Qf[axis][1]
    ELSE get_interpolation_matrix(
             d.mesh, ReceiverLocationsUpTo(d._survey[1], Len(d._survey[1])), axis)

\* the components whose entry projectFields and projectFieldsDeriv create
ProjectedComponents == {"bx", "by", "bz", "tmi"}

\* the axis of a field component
AxisOf(comp) == IF comp = "bx" THEN 0 ELSE IF comp = "by" THEN 1 ELSE 2

\* _get_components(): the components of the first receiver of a valid survey
_get_components(d) ==
    IF d._survey = << >> THEN Raise("AttributeError")
    ELSE IF _validate_survey(d._survey[1]).raised # "no"
    THEN _validate_survey(d._survey[1])
    ELSE Return(d._survey[1][1].components)

\* the Qf matrices a projection over the components reads, now cached
QfAfter(d, components) ==
    Array([axis \in 0 .. 2 |->
              IF \E i \in 1 .. Len(components) :
                     components[i] = "tmi"
                         \/ (components[i] \in {"bx", "by", "bz"}
                                /\ AxisOf(components[i]) = axis)
              THEN <<Qf(d, axis)>>
              ELSE d._Qf[axis]])

\* np.concatenate / sp.vstack of two blocks
Stacked(a, b) ==
    Array([i \in 0 .. Size(a) + Size(b) - 1 |->
              IF i < Size(a) THEN a[i] ELSE b[i - Size(a)]])

\* a concatenation that lays the entries out receiver after receiver
ConcatenateByReceiver(fieldsOf, components, k) ==
    IF k = 0 THEN << >>
    ELSE Array([i \in 0 .. k * Size(fieldsOf[components[1]]) - 1 |->
                   fieldsOf[components[(i % k) + 1]][i \div k]])

\* np.concatenate([fields[comp] for comp in components]) over the first k
\* components
RECURSIVE ConcatenateUpTo(_, _, _)
ConcatenateUpTo(fieldsOf, components, k) ==
    IF k = 0 THEN << >>
    ELSE Stacked(ConcatenateUpTo(fieldsOf, components, k - 1), fieldsOf[components[k]])

\* the dictionary fields of projectFieldsDeriv: Qfx, Qfy, Qfz under "bx",
\* "by", "bz" and bx * box + by * boy + bz * boz under "tmi"
ProjectionMatrices(d) ==
    Only({[comp \in ProjectedComponents |->
              IF comp = "tmi"
              THEN Array([r \in DOMAIN q[0] |->
                             Array([f \in DOMAIN d.mesh.faceDir |->
                                       QSum([a \in 0 .. 2 |->
                                                QMul(q[a][r][f],
                                                     <<RegionalField[a], Amplitude>>)],
                                            3)])])
              ELSE q[AxisOf(comp)]] :
            q \in {Array([axis \in 0 .. 2 |-> Qf(d, axis)])}})

\* projectFieldsDeriv(B): the outcome
projectFieldsDeriv(d, B) ==
    Only({IF c.raised # "no" THEN c
          ELSE IF \E i \in 1 .. Len(c.value[1]) : c.value[1][i] \notin ProjectedComponents
          THEN Raise("KeyError")
          ELSE Return(ConcatenateUpTo(ProjectionMatrices(d), c.value[1], Len(c.value[1]))) :
            c \in {_get_components(d)}})

\* the dictionary fields of projectFields(u): Qfx * u["B"], ... and the tmi
ProjectedFields(d, B) ==
    Only({[comp \in ProjectedComponents |->
              IF comp = "tmi"
              THEN Array([r \in DOMAIN b[0] |->
                             QSum([a \in 0 .. 2 |->
                                      QMul(b[a][r], <<RegionalField[a], Amplitude>>)],
                                  3)])
              ELSE b[AxisOf(comp)]] :
            b \in {Array([axis \in 0 .. 2 |-> QMatVec(Qf(d, axis), B)])}})

\* projectFields(u): the outcome, for u["B"] = B
projectFields(d, B) ==
    Only({IF c.raised # "no" THEN c
          ELSE IF \E i \in 1 .. Len(c.value[1]) : c.value[1][i] \notin ProjectedComponents
          THEN Raise("KeyError")
          ELSE Return(ConcatenateUpTo(ProjectedFields(d, B), c.value[1], Len(c.value[1]))) :
            c \in {_get_components(d)}})

\* dMfMuI = sdiag(MfMuIvec**2) * aveF2CC.T * sdiag(vol * 1.0 / mu**2), with
\* MfMuIvec = 1 / self.MfMui.diagonal()
dMfMuI(mesh, mass, mu) ==
    Only({Array([f \in DOMAIN mesh.inner |->
                    Array([c \in DOMAIN mu |->
                              QMul(QMul(MfMuIvec[f], MfMuIvec[f]),
                                   QMul(mesh.aveF2CC[c][f],
                                        QDiv(<<mesh.cell_volumes[c], 1>>,
                                             QMul(mu[c], mu[c]))))])]) :
            MfMuIvec \in {Reciprocal(mass._MfMui)}})

\* -x
QVNeg(x) == Array([i \in DOMAIN x |-> QSub(<<0, 1>>, x[i])])

\* the end of Jvec: sol = Ainv * dCdm_v, dudm = -sol, dBdmv and P * dBdmv,
\* for x = dMfMuI * (dmu_dm * v), DivTu = Div.T * u, D0 = self.MfMu0 * B0
JvecOfTerms(d, mass, P, x, DivTu, D0) ==
    Only({QMatVec(P,
                  QVSub(QVSub(sdiag(D0, x), sdiag(DivTu, x)),
                        sdiag(mass._MfMuI,
                              QMatTVec(d._Div, Size(d.mesh.inner), dudm)))) :
            dudm \in {QVNeg(solver(getA(d._Div, mass),
                                   QVSub(QMatVec(d._Div, sdiag(DivTu, x)),
                                         QMatVec(d._Div, sdiag(D0, x)))))}})

\* Jvec(m, v) from the fields f of m on
JvecOfFields(d, m, v, f) ==
    Only({IF P.raised # "no" THEN P
          ELSE Return(JvecOfTerms(d, f.mass, P.value[1], x, DivTu, D0)) :
            P \in {projectFieldsDeriv(d, f.B)},
            x \in {QMatVec(dMfMuI(d.mesh, f.mass, muMap(m)), QMatVec(muDeriv(m), v))},
            DivTu \in {QMatTVec(d._Div, Size(d.mesh.inner), f.u)},
            D0 \in {sdiag(f.mass._MfMu0, getB0(d.mesh))}})

\* Simulation3DDifferential.fields(m)
Differential_fields(d, m) ==
    Only({FieldsOfMass(d.mesh, d._Div, mass) : mass \in {makeMassMatrices(d.mesh, m)}})

\* Simulation3DDifferential.Jvec(m, v)
Differential_Jvec(d, m, v) ==
    Only({JvecOfFields(d, m, v, f) : f \in {Differential_fields(d, m)}})

\* dmu_dm.T * dMfMuI.T * (sdiag(D) * y)
DerivTransposeTimes(dmu_dm, dM, D, y) ==
    QMatTVec(dmu_dm, Size(dmu_dm[0]), QMatTVec(dM, Size(dM[0]), sdiag(D, y)))

\* the end of Jtvec: s = Div * (MfMuI.T * (P.T * v)), sol = Ainv * s with
\* Ainv the solver of dCdu.T, Ctv = dCdm_Atsol - dCdm_RHStsol and
\* Jtv = Atemp.T * (P.T * v) - Btemp.T * (P.T * v) - Ctv, for
\* PTv = P.T * v, DivTu = Div.T * u, D0 = self.MfMu0 * B0
JtvecOfTerms(d, mass, dmu_dm, dM, PTv, DivTu, D0) ==
    Only({Only({QVSub(QVSub(DerivTransposeTimes(dmu_dm, dM, D0, PTv),
                           DerivTransposeTimes(dmu_dm, dM, DivTu, PTv)),
                     Ctv) :
                  Ctv \in {QVSub(DerivTransposeTimes(dmu_dm, dM, DivTu, DTsol),
                                 DerivTransposeTimes(dmu_dm, dM, D0, DTsol))}}) :
            DTsol \in {QMatTVec(d._Div, Size(d.mesh.inner),
                                solver(Transposed(getA(d._Div, mass)),
                                       QMatVec(d._Div, sdiag(mass._MfMuI, PTv))))}})

\* Jtvec(m, v) from the fields f of m on; self.mapping is the muMap
JtvecOfFields(d, m, v, f) ==
    Only({IF P.raised # "no" THEN P
          ELSE Return(JtvecOfTerms(d, f.mass, muDeriv(m),
                                   dMfMuI(d.mesh, f.mass, muMap(m)),
                                   QMatTVec(P.value[1], Size(d.mesh.inner), v),
                                   DivTu, D0)) :
            P \in {projectFieldsDeriv(d, f.B)},
            DivTu \in {QMatTVec(d._Div, Size(d.mesh.inner), f.u)},
            D0 \in {sdiag(f.mass._MfMu0, getB0(d.mesh))}})

\* Simulation3DDifferential.Jtvec(m, v)
Differential_Jtvec(d, m, v) ==
    Only({JtvecOfFields(d, m, v, f) : f \in {Differential_fields(d, m)}})

\* the Qf matrices cached once a projection of the object has run
QfAfterProjection(d) ==
    IF _get_components(d).raised # "no" THEN d._Qf
    ELSE QfAfter(d, _get_components(d).value[1])

\* the object after a call op(m, v) of Jvec or Jtvec with the outcome r:
\* fields(m) has set the mass matrices and the projection has read the Qf
AfterDerivative(op, m, v, r) ==
    [differential EXCEPT !.op = op, !.arg = <<m, v>>, !.raised = r.raised,
                         !.ret = r.value,
                         !.mass = <<makeMassMatrices(differential.mesh, m)>>,
                         !._Qf = QfAfterProjection(differential)]

\* simulation.Jvec(m, v)
DifferentialJvec(m, v) ==
    /\ differential' = AfterDerivative("Jvec", m, v, Differential_Jvec(differential, m, v))
    /\ UNCHANGED <<simvars, probe>>

\* simulation.Jtvec(m, v)
DifferentialJtvec(m, v) ==
    /\ differential' = AfterDerivative("Jtvec", m, v, Differential_Jtvec(differential, m, v))
    /\ UNCHANGED <<simvars, probe>>

\* simulation.projectFields(u) with u["B"] = B
ProjectFields(B) ==
    /\ \E r \in {projectFields(differential, B)} :
          differential' = [differential EXCEPT !.op = "projectFields", !.arg = <<B>>,
                                               !.raised = r.raised, !.ret = r.value,
                                               !._Qf = QfAfterProjection(differential)]
    /\ UNCHANGED <<simvars, probe>>

\* simulation.projectFieldsDeriv(B)
ProjectFieldsDeriv(B) ==
    /\ \E r \in {projectFieldsDeriv(differential, B)} :
          differential' = [differential EXCEPT !.op = "projectFieldsDeriv", !.arg = <<B>>,
                                               !.raised = r.raised, !.ret = r.value,
                                               !._Qf = QfAfterProjection(differential)]
    /\ UNCHANGED <<simvars, probe>>

\* simulation.evaluate_integral(receiver_location, components) for receiver r
\* of group g of the survey
EvaluateIntegral(g, r) ==
    /\ probe.variant = "3D"
    /\ Probed("evaluate_integral", <<g, r>>,
              evaluate_integral(probe.model_type, store_sensitivities,
                                probe.survey[g].receivers[r],
                                probe.survey[g].components, probe.cells, << >>))

\* a simulation as constructed: no model, nothing cached
Constructed(stores, mtypes) ==
    /\ engine \in Engines
    /\ store_sensitivities \in stores
    /\ numba_parallel \in BOOLEAN
    /\ is_amplitude_data \in BOOLEAN
    /\ model_type \in mtypes
    /\ active_cells \in ActiveMasks
    /\ model = Unset
    /\ _G = Unset
    /\ _ampDeriv = Unset
    /\ _gtg_diagonal = Unset
    /\ _weights_sha256 = Unset
    /\ call = NoCall("__init__")
    /\ _survey = ThreeComponentSurvey
    /\ hash_seed = 1
    /\ differential = DifferentialObject(ThreeFaceMesh, << >>)

(***************************************************************************)
(* Spec: one scalar-model simulation kept in memory or matrix-free, under  *)
(* every operation and every change of its selections.                     *)
(***************************************************************************)
Init ==
    /\ Constructed({"ram", "forward_only"}, {"scalar"})
    /\ probe = NoProbe

Next ==
    \/ \E e \in Engines : SetEngine(e)
    \/ \E b \in BOOLEAN : SetNumbaParallel(b)
    \/ \E mask \in ActiveMasks : SetActiveCells(mask)
    \/ \E b \in BOOLEAN : SetIsAmplitudeData(b)
    \/ AccessG
    \/ \E m \in Models(model_type, active_cells) : CallFields(m)
    \/ \E m \in Models(model_type, active_cells) : \E v \in ModelSpaceVectors : CallJvec(m, v)
    \/ \E m \in Models(model_type, active_cells) : \E v \in DataSpaceVectors : CallJtvec(m, v)
    \/ \E m \in Models(model_type, active_cells) : CallGetJ(m)
    \/ \E m \in Models(model_type, active_cells) : \E W \in WNames : CallGetJtJdiag(m, W)

Spec == Init /\ [][Next]_vars

(***************************************************************************)
(* SpecConstructed: every construction of the simulation (engine, storage, *)
(* model type, parallelism, amplitude mode, mask), under the operations    *)
(* that leave the selections alone.                                        *)
(***************************************************************************)
InitConstructed ==
    /\ Constructed(StoreModes, ModelTypes)
    /\ probe = NoProbe

NextConstructed ==
    \/ AccessG
    \/ \E m \in Models(model_type, active_cells) : CallFields(m)
    \/ \E m \in Models(model_type, active_cells) : \E v \in AllModelSpaceVectors : CallJvec(m, v)
    \/ \E m \in Models(model_type, active_cells) : \E v \in AllDataSpaceVectors : CallJtvec(m, v)
    \/ \E m \in Models(model_type, active_cells) : CallGetJ(m)
    \/ \E m \in Models(model_type, active_cells) : \E W \in WNames : CallGetJtJdiag(m, W)

SpecConstructed == InitConstructed /\ [][NextConstructed]_vars

(***************************************************************************)
(* SpecEngine: the engine methods of both classes called on every survey,  *)
(* model type and mask.                                                    *)
(***************************************************************************)
InitEngine ==
    /\ engine = "choclo"
    /\ store_sensitivities = "forward_only"
    /\ numba_parallel = TRUE
    /\ is_amplitude_data = FALSE
    /\ model_type = "scalar"
    /\ active_cells = 1 .. NActive
    /\ model = Unset
    /\ _G = Unset
    /\ _ampDeriv = Unset
    /\ _gtg_diagonal = Unset
    /\ _weights_sha256 = Unset
    /\ call = NoCall("__init__")
    /\ _survey = ThreeComponentSurvey
    /\ hash_seed = 1
    /\ differential = DifferentialObject(ThreeFaceMesh, << >>)
    /\ probe \in {[NoProbe EXCEPT !.variant = va, !.model_type = mt, !.survey = su,
                                  !.cells = ce] :
                    va \in Variants, mt \in ModelTypes, su \in Surveys, ce \in ActiveMasks}

NextEngine ==
    \/ \E m \in EngineModels(probe) : Forward(m)
    \/ SensitivityMatrix
    \/ \E v \in EngineVectors(probe) : TransposeDotVec(v)
    \/ \E w \in EngineWeights(probe) : GtgDiagonal(w)

SpecEngine == InitEngine /\ [][NextEngine]_vars

(***************************************************************************)
(* SpecComponents: every request of one and of two components, the request *)
(* of all thirteen and requests with a component outside the vocabulary at *)
(* each position, handed to evaluate_integral and to the four engine       *)
(* methods of both classes.                                                *)
(***************************************************************************)
RequestedLists ==
    {<<ComponentNames[a]>> : a \in 1 .. Len(ComponentNames)}
        \cup {<<ComponentNames[p[1]], ComponentNames[p[2]]>> :
                p \in {q \in (1 .. Len(ComponentNames)) \X (1 .. Len(ComponentNames)) :
                          q[1] < q[2]}}
        \cup {<<"bq", "bx">>, <<"bx", "bq", "tmi">>,
              SubSeq(ComponentNames, 1, Len(ComponentNames) - 1)}

InitComponents ==
    /\ engine = "geoana"
    /\ store_sensitivities = "ram"
    /\ numba_parallel = TRUE
    /\ is_amplitude_data = FALSE
    /\ model_type = "scalar"
    /\ active_cells = 1 .. NActive
    /\ _survey = ThreeComponentSurvey
    /\ model = Unset
    /\ _G = Unset
    /\ _ampDeriv = Unset
    /\ _gtg_diagonal = Unset
    /\ _weights_sha256 = Unset
    /\ call = NoCall("__init__")
    /\ hash_seed \in {1, 16}
    /\ differential = DifferentialObject(ThreeFaceMesh, << >>)
    /\ probe \in {[NoProbe EXCEPT !.variant = va, !.model_type = mt, !.survey = su] :
                    va \in Variants, mt \in ModelTypes,
                    su \in {<<Group(c, 0, 1)>> : c \in RequestedLists}
                             \cup {<<Group(<<"bz">>, 0, 1), Group(<<"bq", "bx">>, 1, 1)>>,
                                   <<Group(<<"bx", "bq">>, 0, 1),
                                     Group(<<"tmi">>, 1, 1)>>}}

NextComponents ==
    \/ \E g \in 1 .. Len(probe.survey) :
          \E r \in 1 .. Len(probe.survey[g].receivers) : EvaluateIntegral(g, r)
    \/ \E m \in EngineModels(probe) : Forward(m)
    \/ SensitivityMatrix
    \/ \E v \in EngineVectors(probe) : TransposeDotVec(v)
    \/ \E w \in EngineWeights(probe) : GtgDiagonal(w)

SpecComponents == InitComponents /\ [][NextComponents]_vars

(***************************************************************************)
(* SpecRequests: evaluate_integral of the geoana engine called with every  *)
(* non-empty subset of the thirteen supported components, listed in the    *)
(* order of ComponentNames and iterated in that order or in its reverse.   *)
(***************************************************************************)
InitRequests ==
    /\ engine = "geoana"
    /\ store_sensitivities = "ram"
    /\ numba_parallel = TRUE
    /\ is_amplitude_data = FALSE
    /\ model_type = "scalar"
    /\ active_cells = 1 .. NActive
    /\ _survey = ThreeComponentSurvey
    /\ model = Unset
    /\ _G = Unset
    /\ _ampDeriv = Unset
    /\ _gtg_diagonal = Unset
    /\ _weights_sha256 = Unset
    /\ call = NoCall("__init__")
    /\ hash_seed \in {1, 16}
    /\ differential = DifferentialObject(ThreeFaceMesh, << >>)
    /\ probe \in {[NoProbe EXCEPT !.survey = <<Group(SetIteration(S, 1), 0, 1)>>] :
                    S \in SUBSET CHOCLO_SUPPORTED_COMPONENTS \ {{}}}

NextRequests ==
    \E g \in 1 .. Len(probe.survey) :
        \E r \in 1 .. Len(probe.survey[g].receivers) : EvaluateIntegral(g, r)

SpecRequests == InitRequests /\ [][NextRequests]_vars

(***************************************************************************)
(* SpecDtype: _forward of both classes, called directly and through the    *)
(* linear operator, under both values of sensitivity_dtype.                *)
(***************************************************************************)
InitDtype ==
    /\ engine = "choclo"
    /\ store_sensitivities = "forward_only"
    /\ numba_parallel = TRUE
    /\ is_amplitude_data = FALSE
    /\ model_type = "scalar"
    /\ active_cells = 1 .. NActive
    /\ model = Unset
    /\ _G = Unset
    /\ _ampDeriv = Unset
    /\ _gtg_diagonal = Unset
    /\ _weights_sha256 = Unset
    /\ call = NoCall("__init__")
    /\ _survey = ThreeComponentSurvey
    /\ hash_seed = 1
    /\ differential = DifferentialObject(ThreeFaceMesh, << >>)
    /\ probe \in {[sensitivity_dtype |-> dt]
                    @@ [NoProbe EXCEPT !.variant = va, !.model_type = mt,
                                       !.survey = su] :
                    va \in Variants, mt \in ModelTypes, su \in Surveys,
                    dt \in {"float32", "float64"}}

NextDtype ==
    \/ \E m \in EngineModels(probe) : ForwardTyped(m)
    \/ \E m \in EngineModels(probe) : OperatorMatvec(m)

SpecDtype == InitDtype /\ [][NextDtype]_vars

(***************************************************************************)
(* SpecSurvey: the simulation constructed on surveys of one and two        *)
(* receiver groups, some of them asking for a component outside the        *)
(* vocabulary, under every engine, storage mode, model type and hash seed. *)
(***************************************************************************)
InitSurvey ==
    /\ engine \in Engines
    /\ store_sensitivities \in StoreModes
    /\ numba_parallel = TRUE
    /\ is_amplitude_data = FALSE
    /\ model_type \in ModelTypes
    /\ active_cells = 1 .. NActive
    /\ _survey \in
          {ThreeComponentSurvey,
           <<Group(<<"tmi", "bx">>, 0, MaxRec)>>,
           <<Group(<<"bx", "bz">>, 0, 1), Group(<<"tmi_x", "by", "bzz">>, 1, MaxRec)>>,
           <<Group(<<"bx", "bq">>, 0, 1)>>,
           <<Group(<<"bq">>, 0, MaxRec)>>,
           <<Group(<<"bz">>, 0, 1), Group(<<"bq", "bx">>, 1, 1)>>}
    /\ model = Unset
    /\ _G = Unset
    /\ _ampDeriv = Unset
    /\ _gtg_diagonal = Unset
    /\ _weights_sha256 = Unset
    /\ call = NoCall("__init__")
    /\ hash_seed \in {1, 16}
    /\ probe = NoProbe
    /\ differential = DifferentialObject(ThreeFaceMesh, << >>)

NextSurvey ==
    \/ AccessG
    \/ \E m \in Models(model_type, active_cells) : CallFields(m)

SpecSurvey == InitSurvey /\ [][NextSurvey]_vars

(***************************************************************************)
(* SpecDifferential: a Simulation3DDifferential constructed without a      *)
(* survey or with a valid one, whose survey is read, replaced by each      *)
(* survey (valid, of mixed components, without receivers) and set to None. *)
(***************************************************************************)
InitDifferential ==
    /\ engine = "choclo"
    /\ store_sensitivities = "forward_only"
    /\ numba_parallel = TRUE
    /\ is_amplitude_data = FALSE
    /\ model_type = "scalar"
    /\ active_cells = 1 .. NActive
    /\ model = Unset
    /\ _G = Unset
    /\ _ampDeriv = Unset
    /\ _gtg_diagonal = Unset
    /\ _weights_sha256 = Unset
    /\ call = NoCall("__init__")
    /\ _survey = ThreeComponentSurvey
    /\ hash_seed = 1
    /\ probe = NoProbe
    /\ differential \in
          {DifferentialObject(ThreeFaceMesh, obj) :
              obj \in {<< >>} \cup {<<s>> : s \in {t \in Surveys :
                                                    _validate_survey(t).raised = "no"}}}

NextDifferential ==
    \/ GetSurvey
    \/ \E obj \in {<< >>} \cup {<<s>> : s \in Surveys \cup {<< >>,
                              <<Group(<<"bx", "bz">>, 0, 1), Group(<<"bz", "bx">>, 1, 1)>>}} :
          SetSurvey(obj)

SpecDifferential == InitDifferential /\ [][NextDifferential]_vars

(***************************************************************************)
(* SpecProjection: a Simulation3DDifferential constructed on each mesh     *)
(* with each valid survey, on which Jvec, Jtvec, projectFields and         *)
(* projectFieldsDeriv are called.                                          *)
(***************************************************************************)
\* the number of cells of the mesh of the object
DifferentialNC == Size(differential.mesh.cell_volumes)

\* the number of data of the survey of the object
DifferentialND == SurveyND(differential._survey[1])

\* the flux arrays handed to the projections: the B of the fields of a
\* model, and one face alone
FluxArrays ==
    {Differential_fields(differential, QVec(ModelVec(k, DifferentialNC))).B :
        k \in 1 .. NModels}
        \cup {QVec(u) : u \in UnitVectors(Size(differential.mesh.inner))}

InitProjection ==
    /\ engine = "choclo"
    /\ store_sensitivities = "forward_only"
    /\ numba_parallel = TRUE
    /\ is_amplitude_data = FALSE
    /\ model_type = "scalar"
    /\ active_cells = 1 .. NActive
    /\ model = Unset
    /\ _G = Unset
    /\ _ampDeriv = Unset
    /\ _gtg_diagonal = Unset
    /\ _weights_sha256 = Unset
    /\ call = NoCall("__init__")
    /\ _survey = ThreeComponentSurvey
    /\ hash_seed = 1
    /\ probe = NoProbe
    /\ differential \in
          {DifferentialObject(mesh, <<s>>) :
              mesh \in Meshes,
              s \in {t \in Surveys : _validate_survey(t).raised = "no"}}

NextProjection ==
    \/ \E k \in 1 .. NModels :
          \E v \in UnitVectors(DifferentialNC) \cup {ModelVec(0, DifferentialNC)} :
              DifferentialJvec(QVec(ModelVec(k, DifferentialNC)), QVec(v))
    \/ \E k \in 1 .. NModels :
          \E v \in UnitVectors(DifferentialND)
                      \cup {[i \in 0 .. DifferentialND - 1 |-> 1 + i]} :
              DifferentialJtvec(QVec(ModelVec(k, DifferentialNC)), QVec(v))
    \/ \E B \in FluxArrays : ProjectFields(B)
    \/ \E B \in FluxArrays : ProjectFieldsDeriv(B)

SpecProjection == InitProjection /\ [][NextProjection]_vars

(***************************************************************************)
(* SpecAmplitude: a simulation of amplitude data on one group of MaxRec    *)
(* receivers of bx, by, bz, under both engines and model types, kept in    *)
(* memory or matrix-free, on which the operations are called (getJtJdiag   *)
(* with W=None).                                                           *)
(***************************************************************************)
InitAmplitude ==
    /\ engine \in Engines
    /\ store_sensitivities \in {"ram", "forward_only"}
    /\ numba_parallel = TRUE
    /\ is_amplitude_data = TRUE
    /\ model_type \in ModelTypes
    /\ active_cells = 1 .. NActive
    /\ _survey = <<Group(<<"bx", "by", "bz">>, 0, MaxRec)>>
    /\ model = Unset
    /\ _G = Unset
    /\ _ampDeriv = Unset
    /\ _gtg_diagonal = Unset
    /\ _weights_sha256 = Unset
    /\ call = NoCall("__init__")
    /\ hash_seed = 1
    /\ probe = NoProbe
    /\ differential = DifferentialObject(ThreeFaceMesh, << >>)

NextAmplitude ==
    \/ \E m \in Models(model_type, active_cells) : CallFields(m)
    \/ \E m \in Models(model_type, active_cells) : \E v \in AllModelSpaceVectors : CallJvec(m, v)
    \/ \E m \in Models(model_type, active_cells) : \E v \in AllDataSpaceVectors : CallJtvec(m, v)
    \/ \E m \in Models(model_type, active_cells) : CallGetJtJdiag(m, "None")

SpecAmplitude == InitAmplitude /\ [][NextAmplitude]_vars

(***************************************************************************)
(* What the claims compare against.                                        *)
(***************************************************************************)
\* the sensitivity matrix of the current selection, as an array
ReferenceG ==
    SensitivityMatrixObject(
        _sensitivity_matrix(model_type, SimSurvey, active_cells).value[1])

\* the normalized field G chi of the current model
FreshAmpDeriv == normalized_fields(ApplyG(ReferenceG, Chi(model[1])))

\* the fraction n / d, n >= 0 and d > 0, in lowest terms
Lowest(n, d) == Only({<<n \div g, d \div g>> : g \in {Gcd(n, d)}})

\* a / a.den and b / b.den are the same array
SameRatio(a, b) ==
    /\ DOMAIN a.num = DOMAIN b.num
    /\ \A j \in DOMAIN a.num : Lowest(a.num[j], a.den) = Lowest(b.num[j], b.den)

\* the operations that assign the model
ModelOps == {"fields", "Jvec", "Jtvec", "getJ", "getJtJdiag"}

\* G was built under the current selection
BuiltUnderSelection(g) ==
    /\ g.builder = GDispatch(engine, store_sensitivities)
    /\ g.cells = active_cells
    /\ g.builder = "_sensitivity_matrix" => g.parallel = <<numba_parallel>>

(***************************************************************************)
(* C1.  An access to G gives what the pair (engine, store_sensitivities)   *)
(* selects: under (choclo, forward_only) a linear operator of shape        *)
(* (nD, n_columns) whose forward-apply is _forward and whose adjoint-apply *)
(* is _sensitivity_matrix_transpose_dot_vec; under (choclo, ram) and       *)
(* (choclo, disk) the matrix of _sensitivity_matrix; under (geoana, ram)   *)
(* and (geoana, disk) the result of linear_operator; under (geoana,        *)
(* forward_only) NotImplementedError.  Checked in SpecConstructed, at      *)
(* every G access of every operation.                                      *)
(***************************************************************************)
C1_GDispatch ==
    call.gRet # << >> =>
        CASE engine = "choclo" /\ store_sensitivities = "forward_only" ->
                /\ call.gRet[1].raised = "no"
                /\ call.gRet[1].value[1].kind = "LinearOperator"
                /\ call.gRet[1].value[1].matvec = "_forward"
                /\ call.gRet[1].value[1].rmatvec = "_sensitivity_matrix_transpose_dot_vec"
                /\ call.gRet[1].value[1].shape
                      = <<SurveyND(SimSurvey), NColumns(model_type, active_cells)>>
                /\ call.gRet[1].value[1].matrix = << >>
          [] engine = "choclo" /\ store_sensitivities # "forward_only" ->
                /\ call.gRet[1].raised = "no"
                /\ call.gRet[1].value[1].kind
                      = (IF store_sensitivities = "disk" THEN "memmap" ELSE "ndarray")
                /\ call.gRet[1].value[1].builder = "_sensitivity_matrix"
                /\ call.gRet[1].value[1].matrix
                      = <<_sensitivity_matrix(model_type, SimSurvey, active_cells).value[1]>>
          [] engine = "geoana" /\ store_sensitivities # "forward_only" ->
                /\ call.gRet[1].raised = "no"
                /\ call.gRet[1].value[1].kind
                      = (IF store_sensitivities = "disk" THEN "memmap" ELSE "ndarray")
                /\ call.gRet[1].value[1].builder = "linear_operator"
                /\ call.gRet[1].value[1].matrix
                      = linear_operator(model_type, store_sensitivities, SimSurvey,
                                        active_cells, << >>).value
          [] OTHER ->
                /\ call.gRet[1] = Raise("NotImplementedError")
                /\ call.raised = "NotImplementedError"
                /\ _G = Unset

\* a read of G under (choclo, forward_only) returned the linear operator
C1_Witness ==
    /\ call.op = "G"
    /\ engine = "choclo"
    /\ store_sensitivities = "forward_only"
    /\ call.gRet # << >>
    /\ call.gRet[1].raised = "no"
    /\ call.gRet[1].value[1].kind = "LinearOperator"

(***************************************************************************)
(* C2.  A cached G is never one built under an older selection: in every   *)
(* state the cached G, and the G the last operation was given, were built  *)
(* by the builder of the current (engine, store_sensitivities), for the    *)
(* current active cells and, for _sensitivity_matrix, under the current    *)
(* numba_parallel; and a change of engine, numba_parallel or active cells  *)
(* leaves no cached G.                                                     *)
(***************************************************************************)
C2_GOfCurrentSelection ==
    /\ _G # Unset => BuiltUnderSelection(_G[1])
    /\ (call.gRet # << >> /\ call.raised = "no") =>
            BuiltUnderSelection(call.gRet[1].value[1])
    /\ call.op \in {"engine", "numba_parallel", "active_cells"} => _G = Unset

\* G was rebuilt by an access although a diagonal computed from an earlier G
\* is still cached: the selection changed in between
C2_Witness ==
    /\ call.op = "G"
    /\ call.builds = 1
    /\ store_sensitivities = "ram"
    /\ _gtg_diagonal # Unset
    /\ _G # Unset
    /\ BuiltUnderSelection(_G[1])

(***************************************************************************)
(* C3.  Every ampDeriv that Jvec, Jtvec or getJtJdiag reads is the         *)
(* normalized field G chi of the model that is current at the read.        *)
(***************************************************************************)
C3_AmpDerivFresh ==
    call.adRet # << >> => SameNormalized(call.adRet[1], FreshAmpDeriv)

\* what _get_gtg_diagonal computes from weights out of the current G and ampDeriv
GtgOf(weights) ==
    IF engine = "choclo" /\ store_sensitivities = "forward_only"
    THEN [num |-> _gtg_diagonal_without_building_g(model_type, SimSurvey, active_cells,
                                                    weights).value[1],
          den |-> 1]
    ELSE IF is_amplitude_data THEN AmplitudeGtg(weights, _ampDeriv[1], _G[1])
    ELSE [num |-> Einsum(weights, _G[1]), den |-> 1]

\* the stored diagonal is the one the weights of the last call give
C4_StoredFromWeights == _gtg_diagonal = <<GtgOf(Weights(call.W))>>

\* one step, as the digest cache allows it
C4_Step ==
    /\ (/\ call.op = "getJtJdiag"
        /\ call.raised = "no"
        /\ call'.op = "getJtJdiag"
        /\ call'.m = call.m
        /\ Sha256(Weights(call'.W)) = Sha256(Weights(call.W)))
            => call'.gtg_calls = 0
    /\ (/\ call'.op = "getJtJdiag"
        /\ _weights_sha256 # Unset
        /\ _weights_sha256[1] # Sha256(Weights(call'.W)))
            => call'.gtg_calls = 1
    /\ (\/ (_gtg_diagonal' # Unset /\ _gtg_diagonal' # _gtg_diagonal)
        \/ (_weights_sha256' # Unset /\ _weights_sha256' # _weights_sha256))
            => /\ call'.op = "getJtJdiag"
               /\ call'.gtg_calls = 1
               /\ call'.raised = "no"
               /\ _gtg_diagonal' = call'.diagRet
               /\ _weights_sha256' = <<Sha256(Weights(call'.W))>>
               /\ C4_StoredFromWeights'

C5_DiagonalOfCurrentModel ==
    (/\ call.op = "getJtJdiag"
     /\ call.raised = "no"
     /\ call.W # "None"
     /\ is_amplitude_data)
        => SameRatio(call.diagRet[1],
                     AmplitudeGtg(Weights(call.W), FreshAmpDeriv, ReferenceG))

\* one step of an operation that assigns the model
C6_Step ==
    (call'.op \in ModelOps /\ _G # Unset) =>
        /\ _G' = _G
        /\ call'.gRet # << >> => call'.gRet[1] = Return(_G[1])

(***************************************************************************)
(* C6.  An operation that assigns the model leaves a cached G as it is,    *)
(* in amplitude mode and in non-amplitude mode: the cached object is the   *)
(* same after the operation, and it is the one the operation was given.    *)
(***************************************************************************)
C6_ModelKeepsG == [][C6_Step]_vars

\* in amplitude mode an operation changed the model and was given the G
\* that was cached before it
C6_Witness ==
    /\ call.op \in ModelOps
    /\ call.updated
    /\ is_amplitude_data
    /\ call.builds = 0
    /\ call.gRet # << >>
    /\ _G # Unset
    /\ call.gRet[1] = Return(_G[1])

\* one step of an operation that reads G
C7_Step ==
    (call'.op \in ModelOps \cup {"G"} /\ _G # Unset) =>
        /\ call'.builds = 0
        /\ _G' = _G

(***************************************************************************)
(* C7.  G is built lazily and at most once: nothing is built at            *)
(* construction, a builder runs only inside an access to G and at most     *)
(* once per operation, and an operation that finds G cached builds         *)
(* nothing and leaves the cached object in place.                          *)
(***************************************************************************)
C7_LazyOnce ==
    /\ [](call.op = "__init__" => _G = Unset)
    /\ [](call.builds > 0 => (call.gRet # << >> /\ _G # Unset))
    /\ [](call.builds <= 1)
    /\ [][C7_Step]_vars

\* getJtJdiag in amplitude mode read G, through ampDeriv and directly,
\* without building it
C7_Witness ==
    /\ call.op = "getJtJdiag"
    /\ is_amplitude_data
    /\ call.raised = "no"
    /\ call.gtg_calls = 1
    /\ call.gRet # << >>
    /\ call.builds = 0

\* offset_g: the sum of n_components * n_receivers over the groups before g
OffsetOfGroup(survey, g) ==
    SumTo([h \in 0 .. g - 2 |->
              Len(survey[h + 1].components) * Len(survey[h + 1].receivers)], g - 1)

\* the row the claim gives to (g, i, r)
RowOf(survey, g, i, r) == OffsetOfGroup(survey, g) + i + Len(survey[g].components) * r

\* the (g, i, r) of a survey, i and r counted from 0
Data(survey) ==
    {<<g, i, r>> : g \in 1 .. Len(survey), i \in 0 .. 2, r \in 0 .. MaxRec - 1}
        \cap {d \in (1 .. Len(survey)) \X (0 .. 2) \X (0 .. MaxRec - 1) :
                /\ d[2] < Len(survey[d[1]].components)
                /\ d[3] < Len(survey[d[1]].receivers)}

\* the kernel row of the datum (g, i, r)
RowOfDatum(p, d) ==
    KernelRow(p.variant, p.model_type, p.survey[d[1]].components[d[2] + 1],
              p.survey[d[1]].receivers[d[3] + 1], p.cells)

\* G^T vector by the claimed layout: entry k sums kernel * vector[row] over
\* the data taken in any order
RECURSIVE SumOverData(_, _, _, _)
SumOverData(p, vector, data, k) ==
    IF data = {} THEN 0
    ELSE Only({RowOfDatum(p, d)[k] * vector[RowOf(p.survey, d[1], d[2], d[3])]
                    + SumOverData(p, vector, data \ {d}, k) :
                 d \in {CHOOSE d \in data : TRUE}})

C8_SliceLayout ==
    /\ \A d \in Data(probe.survey) :
          /\ d[3] \in DOMAIN VectorSlice(probe.survey, d[1], d[2])
          /\ VectorSlice(probe.survey, d[1], d[2])[d[3]]
                = RowOf(probe.survey, d[1], d[2], d[3])
    /\ \A g \in 1 .. Len(probe.survey) :
          \A i \in 0 .. Len(probe.survey[g].components) - 1 :
             DOMAIN VectorSlice(probe.survey, g, i)
                = 0 .. Len(probe.survey[g].receivers) - 1

C8_DisjointCover ==
    /\ \A d \in Data(probe.survey) : \A e \in Data(probe.survey) :
          d # e => RowOf(probe.survey, d[1], d[2], d[3])
                      # RowOf(probe.survey, e[1], e[2], e[3])
    /\ {RowOf(probe.survey, d[1], d[2], d[3]) : d \in Data(probe.survey)}
          = 0 .. SurveyND(probe.survey) - 1

(***************************************************************************)
(* C8.  In the forward, sensitivity and transpose-apply modes of both      *)
(* variants the row of group g, component position i and receiver r is     *)
(* offset_g + i + n_components_g * r, offset_g the sum of n_components *   *)
(* n_receivers over the earlier groups: the slice of (g, i) selects        *)
(* exactly these rows, the slices of all (g, i) are pairwise disjoint and  *)
(* cover 0 .. survey.nD - 1, and what _forward, _sensitivity_matrix and    *)
(* _sensitivity_matrix_transpose_dot_vec return puts, or reads, the datum  *)
(* of (g, i, r) at that row.                                               *)
(***************************************************************************)
C8_RowLayout ==
    /\ C8_SliceLayout
    /\ C8_DisjointCover
    /\ probe.op \in {"_forward", "_sensitivity_matrix",
                     "_sensitivity_matrix_transpose_dot_vec"}
          => probe.out.raised = "no"
    /\ probe.op = "_forward" =>
          /\ DOMAIN probe.out.value[1] = 0 .. SurveyND(probe.survey) - 1
          /\ \A d \in Data(probe.survey) :
                probe.out.value[1][RowOf(probe.survey, d[1], d[2], d[3])]
                    = Dot(RowOfDatum(probe, d), probe.arg[1])
    /\ probe.op = "_sensitivity_matrix" =>
          /\ DOMAIN probe.out.value[1] = 0 .. SurveyND(probe.survey) - 1
          /\ \A d \in Data(probe.survey) :
                probe.out.value[1][RowOf(probe.survey, d[1], d[2], d[3])]
                    = RowOfDatum(probe, d)
    /\ probe.op = "_sensitivity_matrix_transpose_dot_vec" =>
          probe.out.value[1]
              = [k \in 0 .. NColumns(probe.model_type, probe.cells) - 1 |->
                    SumOverData(probe, probe.arg[1], Data(probe.survey), k)]

\* the transpose of the equivalent-source layer read a vector of distinct
\* entries over two groups, the second of three components at two receivers
C8_Witness ==
    /\ probe.op = "_sensitivity_matrix_transpose_dot_vec"
    /\ probe.variant = "layer"
    /\ Len(probe.survey) = 2
    /\ Len(probe.survey[1].components) = 2
    /\ Len(probe.survey[2].components) = 3
    /\ Len(probe.survey[2].receivers) = 2
    /\ probe.arg[1] = [i \in 0 .. SurveyND(probe.survey) - 1 |-> 1 + i]
    /\ probe.out.raised = "no"
    /\ VectorSlice(probe.survey, 2, 1) = (0 :> 3 @@ 1 :> 6)

\* the matrix the variant of the probe assembles
DenseG(p) ==
    IF p.variant = "3D"
    THEN _sensitivity_matrix(p.model_type, p.survey, p.cells).value[1]
    ELSE ESL_sensitivity_matrix(p.model_type, p.survey, p.cells).value[1]

\* np.einsum("i,ij,ij->j", weights, G, G)
DenseDiagonal(weights, g, ncols) ==
    [j \in 0 .. ncols - 1 |->
        SumTo([i \in DOMAIN weights |-> weights[i] * g[i][j] * g[i][j]], Size(weights))]

(***************************************************************************)
(* C9.  The streaming diagonal _gtg_diagonal_without_building_g(weights)   *)
(* equals the dense reference d_j = sum over the data rows i of            *)
(* weights[i] * G[i, j]^2, G the matrix of _sensitivity_matrix and         *)
(* weights[i] the weight of row i in the survey-wide ordering, for every   *)
(* survey, for scalar and vector models.                                   *)
(***************************************************************************)
C9_StreamingEqualsDense ==
    probe.op = "_gtg_diagonal_without_building_g" =>
        /\ probe.out.raised = "no"
        /\ probe.out.value[1]
              = DenseDiagonal(probe.arg[1], DenseG(probe),
                              NColumns(probe.model_type, probe.cells))

\* <jv, v> = <u, jt> for the returned arrays jv of Jvec(m, u) and jt of
\* Jtvec(m, v); under is_amplitude_data both sides are sums over the
\* receivers r of terms over sqrt(amp2[r]), compared term by term
AdjointPair(jv, u, jt, v) ==
    IF jv.kind = "exact"
    THEN jt.kind = "exact" /\ Dot(jv.val, v) = Dot(u, jt.val)
    ELSE /\ jv.den = jt.den
         /\ \A r \in DOMAIN jv.den : jv.val[r] * v[r] = Dot(u, jt.val[r])

(***************************************************************************)
(* C10.  The transpose path is the adjoint of the forward path, for every  *)
(* supported (engine, store_sensitivities, model_type): for the u of a     *)
(* Jvec(m, u) call and every data-space v, <Jvec(m, u), v> = <u, Jtvec(m,  *)
(* v)>; for the v of a Jtvec(m, v) call and every model-space u the same;  *)
(* and for a cached G (an array, or the operator over _forward and         *)
(* _sensitivity_matrix_transpose_dot_vec) <G u, v> = <u, G^T v>.  u and v  *)
(* range over the unit vectors and one more vector of each space.          *)
(***************************************************************************)
C10_Adjoint ==
    /\ (call.op = "Jvec" /\ call.raised = "no") =>
            \A v \in AllDataSpaceVectors :
                AdjointPair(call.ret[1], call.v[1],
                            Jtvec(Begin, call.m[1], v).ret[1], v)
    /\ (call.op = "Jtvec" /\ call.raised = "no") =>
            \A u \in AllModelSpaceVectors :
                AdjointPair(Jvec(Begin, call.m[1], u).ret[1], u,
                            call.ret[1], call.v[1])
    /\ _G # Unset =>
            \A u \in AllModelSpaceVectors :
                \A v \in UnitVectors(SurveyND(SimSurvey)) :
                    Dot(ApplyG(_G[1], u), v) = Dot(u, ApplyGT(_G[1], v))

\* a Jtvec call of a vector model through the linear operator returned
C10_Witness ==
    /\ call.op = "Jtvec"
    /\ call.raised = "no"
    /\ ~is_amplitude_data
    /\ model_type = "vector"
    /\ _G # Unset
    /\ _G[1].kind = "LinearOperator"
    /\ \E k \in DOMAIN call.ret[1].val : call.ret[1].val[k] # 0

\* what fields computes from the model m under the storage mode st, before
\* the amplitude is taken: G @ chi with G assembled under "ram" and "disk",
\* the matrix-free evaluation under "forward_only"
FieldsByStore(st, m) ==
    IF engine = "choclo"
    THEN IF st = "forward_only"
         THEN _forward(model_type, SimSurvey, active_cells, Chi(m)).value[1]
         ELSE MatVec(_sensitivity_matrix(model_type, SimSurvey, active_cells).value[1],
                     Chi(m))
    ELSE IF st = "forward_only"
         THEN linear_operator(model_type, st, SimSurvey, active_cells, Chi(m)).value[1]
         ELSE MatVec(linear_operator(model_type, st, SimSurvey, active_cells,
                                     << >>).value[1], Chi(m))

\* the data fields returns for the field vector f
DataOf(f) ==
    IF is_amplitude_data THEN Value("sqrt", compute_amplitude(f), << >>)
    ELSE Value("exact", f, << >>)

(***************************************************************************)
(* C11.  For the same survey, mask and model, fields(m) returns the same   *)
(* data vector under store_sensitivities "ram", "disk" and "forward_only": *)
(* what a successful fields(m) returns is, entry by entry, the product of  *)
(* the assembled matrix with chi, the direct _forward evaluation (for      *)
(* geoana the forward_only evaluation of linear_operator), and, for        *)
(* choclo, the forward_only operator applied to chi.                       *)
(***************************************************************************)
C11_FieldsAcrossStores ==
    (call.op = "fields" /\ call.raised = "no") =>
        /\ \A st \in StoreModes : call.ret[1] = DataOf(FieldsByStore(st, call.m[1]))
        /\ engine = "choclo" =>
              call.ret[1] = DataOf(ApplyG(_sensitivity_matrix_as_operator,
                                          Chi(call.m[1])))

\* fields returned a data vector with a nonzero entry from the matrix kept on
\* disk, for a survey of two receiver groups
C11_Witness ==
    /\ call.op = "fields"
    /\ call.raised = "no"
    /\ engine = "choclo"
    /\ store_sensitivities = "disk"
    /\ Len(_survey) = 2
    /\ \E i \in DOMAIN call.ret[1].val : call.ret[1].val[i] # 0

\* the number of receiver groups the loop of an engine method has worked
\* through when it meets the first group with an unsupported component
RECURSIVE GroupsBeforeRaise(_, _)
GroupsBeforeRaise(srv, g) ==
    IF g > Len(srv) THEN Len(srv)
    ELSE IF \E i \in 1 .. Len(srv[g].components) :
                srv[g].components[i] \notin CHOCLO_SUPPORTED_COMPONENTS
    THEN g - 1
    ELSE GroupsBeforeRaise(srv, g + 1)

\* an operation that reads G while none is cached evaluates the dispatch
C13_Step ==
    (_G = Unset /\ call'.gRet # << >>) =>
        /\ call'.gRet[1] = Build(GDispatch(engine, store_sensitivities))
        /\ call'.gRet[1].raised # "no" => _G' = Unset

(***************************************************************************)
(* C13.  Whenever an access to G raises (the pairing of geoana with        *)
(* forward_only, or a receiver group with an unsupported component met     *)
(* while the matrix is assembled, also after earlier groups were written), *)
(* no sensitivity matrix is cached or returned: the operation raises the   *)
(* same exception and returns nothing, _G stays unset, and the next access *)
(* to G evaluates the dispatch again.                                      *)
(***************************************************************************)
C13_NoGOnError ==
    /\ []((call.gRet # << >> /\ call.gRet[1].raised # "no") =>
            /\ _G = Unset
            /\ call.gRet[1].value = << >>
            /\ call.raised = call.gRet[1].raised
            /\ call.ret = << >>)
    /\ [][C13_Step]_vars

\* _sensitivity_matrix raised at the second receiver group, after the rows
\* of the first were written, and no G is cached
C13_Witness ==
    /\ call.op = "G"
    /\ engine = "choclo"
    /\ store_sensitivities = "ram"
    /\ call.gRet # << >>
    /\ call.gRet[1] = Raise("NotImplementedError")
    /\ GroupsBeforeRaise(_survey, 1) = 1
    /\ _G = Unset

\* the components asked of the engine call recorded in probe: those of the
\* receiver group for evaluate_integral, those of the survey otherwise
ProbedComponents ==
    IF probe.op = "evaluate_integral"
    THEN {probe.survey[probe.arg[1][1]].components[i] :
            i \in 1 .. Len(probe.survey[probe.arg[1][1]].components)}
    ELSE UNION {{probe.survey[g].components[i] :
                    i \in 1 .. Len(probe.survey[g].components)} :
                 g \in 1 .. Len(probe.survey)}

(***************************************************************************)
(* C12.  A request with a component outside {bx, by, bz, bxx, byy, bzz,    *)
(* bxy, bxz, byz, tmi, tmi_x, tmi_y, tmi_z} makes the evaluation raise     *)
(* NotImplementedError, under both engines (evaluate_integral of geoana;   *)
(* _forward, _sensitivity_matrix, _sensitivity_matrix_transpose_dot_vec    *)
(* and _gtg_diagonal_without_building_g of choclo) and whatever the        *)
(* position of the component in the request; nothing is returned.          *)
(***************************************************************************)
C12_UnsupportedRaises ==
    (probe.op # "" /\ ~(ProbedComponents \subseteq CHOCLO_SUPPORTED_COMPONENTS)) =>
        /\ probe.out.raised = "NotImplementedError"
        /\ probe.out.value = << >>

(***************************************************************************)
(* C16.  For any request of one receiver group, evaluate_integral calls a  *)
(* prism function at most once for each node kernel it stores (gxx, gxy,   *)
(* gxz, gyy, gyz, gzz, gxxx, gxxy, gxxz, gyyx, gxyz, gzzx, gyyy, gyyz,     *)
(* gzzy, gzzz); a request of bx together with tmi evaluates gxx, gxy and   *)
(* gxz exactly once each.                                                  *)
(***************************************************************************)
C16_KernelsOnce ==
    probe.op = "evaluate_integral" =>
        \A ne \in {NodeEvals(probe.survey[probe.arg[1][1]].components)} :
            /\ DOMAIN ne \subseteq
                  {"gxx", "gxy", "gxz", "gyy", "gyz", "gzz", "gxxx", "gxxy", "gxxz",
                   "gyyx", "gxyz", "gzzx", "gyyy", "gyyz", "gzzy", "gzzz"}
            /\ \A key \in DOMAIN ne : ne[key].n = 1
            /\ {"bx", "tmi"} \subseteq ProbedComponents =>
                  /\ {"gxx", "gxy", "gxz"} \subseteq DOMAIN ne
                  /\ \A key \in {"gxx", "gxy", "gxz"} : ne[key].n = 1

\* evaluate_integral returned the rows of a request of bx together with tmi
C16_Witness ==
    /\ probe.op = "evaluate_integral"
    /\ ProbedComponents = {"bx", "tmi"}
    /\ probe.out.raised = "no"
    /\ Size(probe.out.value[1]) = 2


(***************************************************************************)
(* getJtJdiag under every selection                                        *)
(***************************************************************************)
\* the selections for which _get_gtg_diagonal has no implementation
GtgUnsupported ==
    \/ engine = "geoana" /\ store_sensitivities = "forward_only"
    \/ engine = "choclo" /\ store_sensitivities = "forward_only" /\ is_amplitude_data

\* a getJtJdiag call that raises assigns neither _gtg_diagonal nor
\* _weights_sha256 (the model assignment before it may delete the diagonal)
C14_Step ==
    (call'.op = "getJtJdiag" /\ call'.raised # "no") =>
        /\ _gtg_diagonal' \in {_gtg_diagonal, Unset}
        /\ _weights_sha256' = _weights_sha256

\* C14: getJtJdiag raises NotImplementedError for (geoana, forward_only, any
\* amplitude flag) and for (choclo, forward_only, amplitude data), and returns
\* a diagonal for every other selection; a call that raises stores neither a
\* diagonal nor a digest.
C14_GetJtJdiagOutcome ==
    /\ [](call.op = "getJtJdiag" =>
            IF GtgUnsupported
            THEN call.raised = "NotImplementedError" /\ call.ret = << >>
            ELSE call.raised = "no" /\ call.ret # << >>)
    /\ [][C14_Step]_vars


(***************************************************************************)
(* getJ on amplitude data                                                  *)
(***************************************************************************)
\* a getJ call under is_amplitude_data raises NotImplementedError and leaves
\* the model and the four caches as they were
C15_Step ==
    (call'.op = "getJ" /\ is_amplitude_data') =>
        /\ call'.raised = "NotImplementedError"
        /\ call'.ret = << >>
        /\ model' = model
        /\ _G' = _G
        /\ _ampDeriv' = _ampDeriv
        /\ _gtg_diagonal' = _gtg_diagonal
        /\ _weights_sha256' = _weights_sha256

\* C15: getJ(m) with is_amplitude_data true raises NotImplementedError under
\* every engine and storage mode, before the model is assigned: the model, G,
\* ampDeriv, the GtG diagonal and the weight digest are the same after the
\* call as before it.
C15_GetJAmplitudeRaises == [][C15_Step]_vars

\* a raising getJ whose argument is not the model in place, with the caches
\* that a model assignment would have deleted in place
C15_Witness ==
    /\ call.op = "getJ"
    /\ is_amplitude_data
    /\ call.raised = "NotImplementedError"
    /\ model # Unset
    /\ call.m # model
    /\ _ampDeriv # Unset
    /\ _gtg_diagonal # Unset
    /\ _weights_sha256 # Unset


(***************************************************************************)
(* fields called twice                                                     *)
(***************************************************************************)
\* a fields call that follows a fields call of the same model returns what
\* the first returned
C17_Step ==
    (/\ call.op = "fields" /\ call.raised = "no"
     /\ call'.op = "fields" /\ call'.raised = "no"
     /\ call'.m = call.m) =>
        call'.ret = call.ret

\* C17: two consecutive fields calls with the same model return identical
\* data vectors, whatever G, ampDeriv and model the first found and left,
\* under every engine, storage mode and amplitude flag for which fields
\* succeeds.
C17_FieldsIdempotent == [][C17_Step]_vars

\* a fields call on amplitude data that found its model assigned and G built
C17_Witness ==
    /\ call.op = "fields"
    /\ call.raised = "no"
    /\ is_amplitude_data
    /\ ~call.updated
    /\ call.m = model
    /\ call.builds = 0
    /\ store_sensitivities = "disk"
    /\ _G # Unset
    /\ _ampDeriv # Unset
    /\ call.ret # << >>


(***************************************************************************)
(* What the component evaluations of one engine operation write            *)
(***************************************************************************)
\* the component evaluations of the operation probed: (group, position) pairs
ProbedIterations ==
    {its[n] : its \in {Iterations(probe.survey, Len(probe.survey))},
              n \in 1 .. Len(Iterations(probe.survey, Len(probe.survey)))}

\* the output elements of the evaluation it of the operation probed
ProbedOutput(it) ==
    OutputElements(probe.op, probe.model_type, probe.survey, probe.cells, it[1], it[2])

EngineMethods ==
    {"_forward", "_sensitivity_matrix", "_sensitivity_matrix_transpose_dot_vec",
     "_gtg_diagonal_without_building_g"}

\* C18 as stated: in each of the four modes the evaluations of two different
\* components of one operation write disjoint output elements.
C18_DisjointInEveryMode ==
    (probe.op \in EngineMethods /\ probe.out.raised = "no") =>
        \A a \in ProbedIterations : \A b \in ProbedIterations \ {a} :
            ProbedOutput(a) \cap ProbedOutput(b) = {}

\* C18 (amended): in the forward and sensitivity modes the evaluations of two
\* different components write disjoint rows of the output; in the
\* transpose-apply and diagonal modes every component evaluation accumulates
\* into every element of the one output array, which is the array returned,
\* and the transpose-apply evaluations read disjoint slices of the vector.
C18_DisjointRowsSharedColumns ==
    (probe.op \in EngineMethods /\ probe.out.raised = "no") =>
        /\ \A a \in ProbedIterations : \A b \in ProbedIterations \ {a} :
            OutputElements("_forward", probe.model_type, probe.survey, probe.cells,
                           a[1], a[2])
                \cap OutputElements("_forward", probe.model_type, probe.survey,
                                    probe.cells, b[1], b[2]) = {}
        /\ probe.op \in {"_sensitivity_matrix_transpose_dot_vec",
                         "_gtg_diagonal_without_building_g"} =>
                \A a \in ProbedIterations :
                    /\ ProbedOutput(a) = DOMAIN probe.out.value[1]
                    /\ ProbedOutput(a) # {}

\* a transpose-apply over two groups, the second of three components and more
\* than one receiver
C18_Witness ==
    /\ probe.op = "_sensitivity_matrix_transpose_dot_vec"
    /\ probe.out.raised = "no"
    /\ Len(probe.survey) = 2
    /\ Len(probe.survey[2].components) = 3
    /\ Len(probe.survey[2].receivers) > 1
    /\ probe.model_type = "vector"
    /\ \E k \in DOMAIN probe.out.value[1] : probe.out.value[1][k] # 0


(***************************************************************************)
(* The columns of the sensitivity matrix                                   *)
(***************************************************************************)
\* entry (i, j) of G: read from the array, or G @ e_j for the operator
EntryOfG(g, i, j) ==
    IF g.kind = "LinearOperator"
    THEN ApplyG(g, [k \in 0 .. g.shape[2] - 1 |-> IF k = j THEN 1 ELSE 0])[i]
    ELSE RowOfG(g, i)[j]

\* C19: a vector model has 3 * nC columns in three blocks of nC: column
\* a * nC + c holds the axis a (x, y, z) of active cell c; a scalar model has
\* nC columns, column c holding active cell c; the forward_only operator has
\* the same shape (survey.nD, n_columns) and the same columns.
C19_ColumnLayout ==
    (call.op = "G" /\ call.raised = "no") =>
        \A g \in {call.gRet[1].value[1]} : \A nC \in {Cardinality(active_cells)} :
            /\ g.shape = <<SurveyND(SimSurvey),
                           IF model_type = "vector" THEN 3 * nC ELSE nC>>
            /\ g.kind # "LinearOperator" =>
                /\ DOMAIN g.matrix[1] = 0 .. SurveyND(SimSurvey) - 1
                /\ \A i \in DOMAIN g.matrix[1] :
                      DOMAIN RowOfG(g, i) = 0 .. g.shape[2] - 1
            /\ \A d \in Data(SimSurvey) : \A c \in 0 .. nC - 1 :
                  \A t \in {KernelTriplet("3D", SimSurvey[d[1]].components[d[2] + 1],
                                          SimSurvey[d[1]].receivers[d[3] + 1],
                                          ActiveCell(active_cells, c))} :
                  \A i \in {RowOf(SimSurvey, d[1], d[2], d[3])} :
                      IF model_type = "vector"
                      THEN \A a \in 0 .. 2 :
                              EntryOfG(g, i, a * nC + c) = Amplitude * t[a]
                      ELSE EntryOfG(g, i, c)
                              = SumTo([a \in 0 .. 2 |-> t[a] * RegionalField[a]], 3)

\* the dense G of a vector model over more than one cell, built by
\* evaluate_integral, with a row whose x and y entries of the first cell differ
C19_Witness ==
    /\ call.op = "G"
    /\ call.raised = "no"
    /\ engine = "geoana"
    /\ model_type = "vector"
    /\ Cardinality(active_cells) > 1
    /\ _G # Unset
    /\ _G[1].kind # "LinearOperator"
    /\ _G[1].shape[2] = 3 * Cardinality(active_cells)
    /\ \E i \in DOMAIN _G[1].matrix[1] :
          /\ RowOfG(_G[1], i)[0] # RowOfG(_G[1], i)[Cardinality(active_cells)]
          /\ RowOfG(_G[1], i)[0] # RowOfG(_G[1], i)[1]


(***************************************************************************)
(* The survey property of Simulation3DDifferential                         *)
(***************************************************************************)
\* a read that follows an assignment sees what the assignment left: None
\* raises, a valid survey is returned, and a survey the setter refused leaves
\* the read as it would have been before
C20_Step ==
    (differential.op = "survey.setter" /\ differential'.op = "survey") =>
        IF differential.raised # "no"
        THEN differential'._survey = differential._survey
        ELSE IF differential.arg = << >>
        THEN differential'.raised = "AttributeError"
        ELSE differential'.raised = "no" /\ differential'.ret = differential.arg

\* C20: reading the survey property raises AttributeError in every state in
\* which no survey is attached (never attached, or set to None afterwards),
\* and returns the attached survey otherwise.
C20_SurveyGetter ==
    /\ [](differential.op = "survey" =>
            /\ ~differential.attached => differential._survey = << >>
            /\ IF differential._survey = << >>
               THEN differential.raised = "AttributeError" /\ differential.ret = << >>
               ELSE differential.raised = "no"
                        /\ differential.ret = differential._survey)
    /\ [][C20_Step]_vars

\* a read that raised on a simulation that had a survey attached before
C20_Witness ==
    /\ differential.op = "survey"
    /\ differential.raised = "AttributeError"
    /\ differential.attached
    /\ differential._survey = << >>


(***************************************************************************)
(* The survey setter of Simulation3DDifferential                           *)
(***************************************************************************)
\* the survey s has a receiver and all its receivers list the same
\* components in the same order
SameComponents(s) ==
    /\ Len(s) >= 1
    /\ \A g \in 1 .. Len(s) : \A h \in 1 .. Len(s) :
          /\ Len(s[g].components) = Len(s[h].components)
          /\ \A i \in 1 .. Len(s[g].components) :
                s[g].components[i] = s[h].components[i]

\* an assignment of a survey that is not of the same components raises
\* ValueError and keeps the survey in place
C21_Step ==
    (/\ differential'.op = "survey.setter"
     /\ differential'.arg # << >>
     /\ ~SameComponents(differential'.arg[1])) =>
        /\ differential'.raised = "ValueError"
        /\ differential'._survey = differential._survey

\* C21: assigning a survey without receivers, or whose receivers do not all
\* have the same components in the same order, raises ValueError and leaves
\* the survey attached before in place; every attached survey has a receiver
\* and the same component list on all its receivers.
C21_SetterValidates ==
    /\ [](differential._survey # << >> => SameComponents(differential._survey[1]))
    /\ [][C21_Step]_vars

\* a survey whose receivers list the same components in another order was
\* refused and a survey attached before is still in place
C21_Witness ==
    /\ differential.op = "survey.setter"
    /\ differential.raised = "ValueError"
    /\ differential._survey # << >>
    /\ Len(differential.arg[1]) = 2
    /\ differential.arg[1][1].components = <<"bx", "bz">>
    /\ differential.arg[1][2].components = <<"bz", "bx">>


\* the data-space vectors against which the transpose is tested
DifferentialDataVectors ==
    {QVec(w) : w \in UnitVectors(DifferentialND)
                        \cup {[i \in 0 .. DifferentialND - 1 |-> 1 + i]}}

\* the model-space vectors against which the transpose is tested
DifferentialModelVectors ==
    {QVec(u) : u \in UnitVectors(DifferentialNC) \cup {ModelVec(0, DifferentialNC)}}

(***************************************************************************)
(* C22.  Jtvec of the differential simulation is the adjoint of its Jvec:  *)
(* for the model m and the vector v of a Jvec(m, v) call that returned and *)
(* every data-space w, <Jvec(m, v), w> = <v, Jtvec(m, w)>, and for the w   *)
(* of a Jtvec(m, w) call that returned and every model-space v the same.   *)
(***************************************************************************)
C22_DifferentialAdjoint ==
    /\ (differential.op = "Jvec" /\ differential.raised = "no") =>
            \A w \in DifferentialDataVectors :
                QDot(differential.ret[1], w)
                    = QDot(differential.arg[2],
                           Differential_Jtvec(differential, differential.arg[1],
                                              w).value[1])
    /\ (differential.op = "Jtvec" /\ differential.raised = "no") =>
            \A v \in DifferentialModelVectors :
                QDot(Differential_Jvec(differential, differential.arg[1], v).value[1],
                     differential.arg[2])
                    = QDot(v, differential.ret[1])


\* the kernel row of component c (0, 1, 2 for bx, by, bz) at receiver r of
\* the one group of the survey
KernelOf(c, r) ==
    KernelRow("3D", model_type, SimSurvey[1].components[c + 1],
              SimSurvey[1].receivers[r + 1], active_cells)

\* component c of the field of the current model at receiver r
FieldOf(c, r) == Dot(KernelOf(c, r), Chi(model[1]))

\* the squared amplitude of the field of the current model at receiver r
Amp2Of(r) == SumTo([c \in 0 .. 2 |-> FieldOf(c, r) * FieldOf(c, r)], 3)

\* sqrt(amp2[r]) times the row of the amplitude Jacobian of receiver r
AmplitudeRowOf(r) ==
    [j \in 0 .. NColumns(model_type, active_cells) - 1 |->
        SumTo([c \in 0 .. 2 |-> FieldOf(c, r) * KernelOf(c, r)[j]], 3)]

\* the receivers of the survey, from 0
ReceiverIndices == 0 .. Len(SimSurvey[1].receivers) - 1

(***************************************************************************)
(* C24.  Under is_amplitude_data every conversion between the flat vector  *)
(* of 3n data and the (3, n) array pairs flat index 3r + c with component  *)
(* c of receiver r: fields returns at r the norm of the three components   *)
(* of r; ampDeriv[c, r] is component c of the field at r over that norm;   *)
(* Jvec returns at r the sum over c of ampDeriv[c, r] * (G chiDeriv v) at  *)
(* row 3r + c, the row of component c of receiver r; Jtvec applies G^T to  *)
(* the vector whose entry 3r + c is ampDeriv[c, r] * v[r]; and the row of  *)
(* receiver r in the loop of _get_gtg_diagonal, taken from G[::3],         *)
(* G[1::3] and G[2::3], is the sum over c of ampDeriv[c, r] times the row  *)
(* of component c of receiver r.                                           *)
(***************************************************************************)
C24_OneCorrespondence ==
    /\ (call.op = "fields" /\ call.raised = "no") =>
            call.ret[1] = Value("sqrt", [r \in ReceiverIndices |-> Amp2Of(r)], << >>)
    /\ _ampDeriv # Unset =>
            /\ _ampDeriv[1].amp2 = [r \in ReceiverIndices |-> Amp2Of(r)]
            /\ _ampDeriv[1].num = [c \in 0 .. 2 |-> [r \in ReceiverIndices |-> FieldOf(c, r)]]
    /\ (call.op = "Jvec" /\ call.raised = "no") =>
            call.ret[1]
                = Value("over_amplitude",
                        [r \in ReceiverIndices |->
                            Dot(AmplitudeRowOf(r),
                                MatVec(ChiDeriv(Size(call.v[1])), call.v[1]))],
                        [r \in ReceiverIndices |-> Amp2Of(r)])
    /\ (call.op = "Jtvec" /\ call.raised = "no") =>
            call.ret[1]
                = Value("sum_over_amplitude",
                        [r \in ReceiverIndices |->
                            MatTVec(ChiDeriv(Size(call.m[1])), Size(call.m[1]),
                                    [j \in DOMAIN AmplitudeRowOf(r) |->
                                        AmplitudeRowOf(r)[j] * call.v[1][r]])],
                        [r \in ReceiverIndices |-> Amp2Of(r)])
    /\ (_G # Unset /\ _G[1].kind # "LinearOperator" /\ _ampDeriv # Unset) =>
            \A r \in ReceiverIndices :
                AmplitudeRow(_ampDeriv[1], _G[1], r) = AmplitudeRowOf(r)

\* a Jvec of amplitude data on two receivers whose fields differ returned
C24_Witness ==
    /\ call.op = "Jvec"
    /\ call.raised = "no"
    /\ is_amplitude_data
    /\ Cardinality(ReceiverIndices) > 1
    /\ \E c \in 0 .. 2 : FieldOf(c, 0) # FieldOf(c, 1)
    /\ call.ret[1].val[0] # call.ret[1].val[1]


(***************************************************************************)
(* C25.  In getJtJdiag of amplitude data with G kept as an array the loop  *)
(* over the weights reads only rows that exist: for every W, W=None        *)
(* included, the weights are as many as the amplitude data, survey.nD //   *)
(* 3, the rows of G[::3] and the columns of ampDeriv, and the call raises  *)
(* no IndexError.                                                          *)
(***************************************************************************)
C25_WeightsWithinRows ==
    (/\ call.op = "getJtJdiag"
     /\ is_amplitude_data
     /\ store_sensitivities # "forward_only") =>
        /\ Size(Weights(call.W)) = SurveyND(SimSurvey) \div 3
        /\ call.adRet # << >> => Size(Weights(call.W)) = Size(call.adRet[1].amp2)
        /\ call.raised # "IndexError"


\* the components of the receivers of the differential simulation
DifferentialComponents == differential._survey[1][1].components

\* the number of receiver locations of its survey
DifferentialNRx ==
    Len(ReceiverLocationsUpTo(differential._survey[1], Len(differential._survey[1])))

\* the derivative of component comp at receiver r with respect to the flux on
\* the faces: the interpolation row of the axis, and for tmi the rows of the
\* three axes weighted by the unit regional field
ComponentRowAt(comp, r) ==
    IF comp = "tmi"
    THEN [f \in DOMAIN differential.mesh.faceDir |->
             QSum([a \in 0 .. 2 |->
                      QMul(<<RegionalField[a], Amplitude>>, Qf(differential, a)[r][f])], 3)]
    ELSE Qf(differential, AxisOf(comp))[r]

(***************************************************************************)
(* C26.  projectFields lays the data out component after component: for    *)
(* the components c_1 .. c_k of the survey and its nRx receivers the       *)
(* result has k * nRx entries and entry j * nRx + r is component c_(j+1)   *)
(* of the flux at receiver r; projectFieldsDeriv stacks its row blocks in  *)
(* the same order, row j * nRx + r being the derivative of that entry.     *)
(***************************************************************************)
C26_ComponentMajor ==
    /\ (differential.op = "projectFields" /\ differential.raised = "no") =>
            /\ DOMAIN differential.ret[1]
                  = 0 .. Len(DifferentialComponents) * DifferentialNRx - 1
            /\ \A j \in 0 .. Len(DifferentialComponents) - 1 :
                  \A r \in 0 .. DifferentialNRx - 1 :
                      differential.ret[1][j * DifferentialNRx + r]
                          = QDot(ComponentRowAt(DifferentialComponents[j + 1], r),
                                 differential.arg[1])
    /\ (differential.op = "projectFieldsDeriv" /\ differential.raised = "no") =>
            /\ DOMAIN differential.ret[1]
                  = 0 .. Len(DifferentialComponents) * DifferentialNRx - 1
            /\ \A j \in 0 .. Len(DifferentialComponents) - 1 :
                  \A r \in 0 .. DifferentialNRx - 1 :
                      differential.ret[1][j * DifferentialNRx + r]
                          = ComponentRowAt(DifferentialComponents[j + 1], r)

\* projectFields returned the bx and bz of more than one receiver, and the
\* bz of the first receiver is not the second entry
C26_Witness ==
    /\ differential.op = "projectFields"
    /\ differential.raised = "no"
    /\ DifferentialComponents = <<"bx", "bz">>
    /\ DifferentialNRx > 1
    /\ differential.ret[1][1] # differential.ret[1][DifferentialNRx]

\* fields under forward_only leaves the cached G as it was
C27_Step ==
    (store_sensitivities = "forward_only" /\ call'.op = "fields") => _G' = _G

(***************************************************************************)
(* C27.  Under store_sensitivities "forward_only", fields(m) does not read *)
(* G: with either engine it returns the data (through linear_operator()    *)
(* under geoana, through _forward under choclo), no builder of G runs and  *)
(* _G is left alone.  Jvec, Jtvec and getJ under geoana with forward_only  *)
(* raise NotImplementedError and return nothing; the exception is the one  *)
(* the G property raises, except for getJ in amplitude mode, which raises  *)
(* it before it reaches G.                                                 *)
(***************************************************************************)
C27_ForwardOnlyFields ==
    /\ []((store_sensitivities = "forward_only" /\ call.op = "fields") =>
            /\ call.raised = "no"
            /\ call.ret # << >>
            /\ call.gRet = << >>
            /\ call.builds = 0)
    /\ []((engine = "geoana" /\ store_sensitivities = "forward_only"
            /\ call.op \in {"Jvec", "Jtvec", "getJ"}) =>
            /\ call.raised = "NotImplementedError"
            /\ call.ret = << >>
            /\ call.builds = 0
            /\ _G = Unset
            /\ IF call.op = "getJ" /\ is_amplitude_data
               THEN call.gRet = << >>
               ELSE call.gRet = <<Raise("NotImplementedError")>>)
    /\ [][C27_Step]_vars

\* fields has returned a field that is not zero under geoana with
\* forward_only, and no G is cached
C27_Witness ==
    /\ engine = "geoana"
    /\ store_sensitivities = "forward_only"
    /\ ~is_amplitude_data
    /\ call.op = "fields"
    /\ call.raised = "no"
    /\ call.gRet = << >>
    /\ _G = Unset
    /\ \E i \in DOMAIN call.ret[1].val : call.ret[1].val[i] # 0

\* the component list and the receiver location of the evaluate_integral
\* call probed
ProbedRequest == probe.survey[probe.arg[1][1]].components

ProbedLocation == probe.survey[probe.arg[1][1]].receivers[probe.arg[1][2]]

\* evaluate_integral of the same simulation at the same location for
\* another component list
EvaluatedWith(components) ==
    evaluate_integral(probe.model_type, store_sensitivities, ProbedLocation,
                      components, probe.cells, << >>)

(***************************************************************************)
(* C28.  evaluate_integral returns one row per entry of the components     *)
(* list, row k being the row of components[k], and the row of a component  *)
(* is the same whichever other components are requested with it: it is the *)
(* row the component has when it is requested alone and when it is         *)
(* requested after bx.  A node kernel that several blocks can create is    *)
(* created by the same prism function with the same arguments as in the    *)
(* request of any one component that needs it.                             *)
(***************************************************************************)
C28_RowsIndependent ==
    (probe.op = "evaluate_integral" /\ probe.out.raised = "no") =>
        /\ DOMAIN probe.out.value[1] = 0 .. Len(ProbedRequest) - 1
        /\ \A k \in 1 .. Len(ProbedRequest) :
              \A other \in {<<ProbedRequest[k]>>, <<"bx", ProbedRequest[k]>>} :
                  \A o \in {EvaluatedWith(other)} :
                      o.raised = "no" =>
                          probe.out.value[1][k - 1] = o.value[1][Len(other) - 1]
        /\ \A ne \in {NodeEvals(ProbedRequest)} :
              \A k \in 1 .. Len(ProbedRequest) :
                  \A alone \in {NodeEvals(<<ProbedRequest[k]>>)} :
                      \A key \in DOMAIN alone :
                          /\ key \in DOMAIN ne
                          /\ ne[key].func = alone[key].func
                          /\ ne[key].args = alone[key].args

(***************************************************************************)
(* C29.  For every non-empty subset of the thirteen supported components,  *)
(* evaluate_integral returns, and node_evals as the blocks have filled it  *)
(* holds every key that the branch of each requested component looks up:   *)
(* no lookup in node_evals fails.                                          *)
(***************************************************************************)
C29_KernelsComputed ==
    (probe.op = "evaluate_integral"
     /\ ProbedComponents \subseteq CHOCLO_SUPPORTED_COMPONENTS) =>
        /\ probe.out.raised = "no"
        /\ \A ne \in {NodeEvals(ProbedRequest)} :
              \A c \in ProbedComponents : NodeReads(c) \subseteq DOMAIN ne

\* evaluate_integral returned the three rows of a request of bz, byy and
\* tmi_x
C29_Witness ==
    /\ probe.op = "evaluate_integral"
    /\ ProbedComponents = {"bz", "byy", "tmi_x"}
    /\ probe.out.raised = "no"
    /\ Size(probe.out.value[1]) = 3

(***************************************************************************)
(* C30.  _forward returns an array of dtype float64 whatever the value of  *)
(* sensitivity_dtype (float32 or float64), in the 3D class and in the      *)
(* equivalent-source-layer class; the array the linear operator of         *)
(* _sensitivity_matrix_as_operator hands back has the dtype float64 the    *)
(* operator declares.                                                      *)
(***************************************************************************)
C30_ForwardFloat64 ==
    (probe.op \in {"_forward.dtype", "G.matvec"} /\ probe.out.raised = "no") =>
        /\ probe.out.value[1].dtype = "float64"
        /\ probe.op = "G.matvec" =>
              probe.out.value[1].dtype = probe.out.value[1].declared

====
